---- MODULE Spec2Model ----
(***************************************************************************)
(* Model of removeSecretStringsFromRepos/secrets-removal.js: the           *)
(* destructive run (classify, save metadata, backup, rewrite, push trunk)  *)
(* and the reconstruction run (load latest metadata, rebuild each saved    *)
(* branch on the rewritten trunk).                                         *)
(*                                                                         *)
(* The program is single threaded and every await is sequential, so each   *)
(* handler runs to completion: one action per handler call.  External      *)
(* commands (run(cmd, cwd)) are the environment: a read-only git query     *)
(* answers what the commit graph says, a command whose outcome depends on  *)
(* the outside world (push, copy, cherry-pick, checkout, file write, the   *)
(* rewrite tool) succeeds or fails by the environment's choice.            *)
(*                                                                         *)
(* Text is a sequence of one-character strings, so that split, replace,    *)
(* startsWith, endsWith and sort are computed as the code computes them.   *)
(***************************************************************************)
EXTENDS Integers, Sequences, FiniteSets, TLC

----------------------------------------------------------------------------
(* Text helpers                                                            *)

\* Characters in UTF-16 code-unit order, the order Array.prototype.sort uses.
Alphabet ==
    << "\n", " ", "-", ".", "/", "0", "1", "2", "3", "4", "5", "6", "7", "8", "9",
       ":", "T", "Z", "_", "a", "b", "c", "d", "e", "f", "g", "h", "i", "j",
       "k", "l", "m", "n", "o", "p", "q", "r", "s", "t", "u", "v", "w", "x",
       "y", "z", "|" >>

Code(c) == CHOOSE i \in 1..Len(Alphabet) : Alphabet[i] = c

Digits == << "0", "1", "2", "3", "4", "5", "6", "7", "8", "9" >>

IsDigit(c) == \E i \in 1..10 : Digits[i] = c

DigitValue(c) == (CHOOSE i \in 1..10 : Digits[i] = c) - 1

RECURSIVE Pad(_, _)
\* n in decimal, zero padded to w characters (padStart(w, '0') of the number).
Pad(n, w) == IF w = 0 THEN << >> ELSE Append(Pad(n \div 10, w - 1), Digits[(n % 10) + 1])

RECURSIVE ParseDigits(_)
ParseDigits(s) ==
    IF s = << >> THEN 0 ELSE 10 * ParseDigits(SubSeq(s, 1, Len(s) - 1)) + DigitValue(s[Len(s)])

AllDigits(s) == s # << >> /\ \A i \in 1..Len(s) : IsDigit(s[i])

\* String.prototype.startsWith / endsWith
StartsWith(s, p) == Len(p) <= Len(s) /\ SubSeq(s, 1, Len(p)) = p

EndsWith(s, p) == Len(p) <= Len(s) /\ SubSeq(s, Len(s) - Len(p) + 1, Len(s)) = p

\* String.prototype.indexOf, 1-based; 0 when pat does not occur
IndexOf(s, pat) ==
    LET hits == { i \in 1..(Len(s) - Len(pat) + 1) : SubSeq(s, i, i + Len(pat) - 1) = pat }
    IN  IF hits = {} THEN 0 ELSE CHOOSE i \in hits : \A j \in hits : i <= j

\* String.prototype.replace(pat, rep) with a string pattern: the first occurrence only
ReplaceFirst(s, pat, rep) ==
    LET i == IndexOf(s, pat)
    IN  IF i = 0 THEN s
        ELSE SubSeq(s, 1, i - 1) \o rep \o SubSeq(s, i + Len(pat), Len(s))

RECURSIVE SplitFrom(_, _, _, _)
\* the pieces of s from position i on, `piece` being the piece begun before i
SplitFrom(s, sep, i, piece) ==
    IF i > Len(s) THEN << piece >>
    ELSE IF s[i] = sep THEN << piece >> \o SplitFrom(s, sep, i + 1, << >>)
    ELSE SplitFrom(s, sep, i + 1, Append(piece, s[i]))

\* String.prototype.split(sep) for a one-character separator
Split(s, sep) == SplitFrom(s, sep, 1, << >>)

RECURSIVE Join(_, _)
Join(parts, sep) ==
    IF parts = << >> THEN << >>
    ELSE IF Len(parts) = 1 THEN parts[1]
    ELSE parts[1] \o << sep >> \o Join(Tail(parts), sep)

RECURSIVE LexLess(_, _)
\* s < t as JavaScript compares strings (code unit by code unit)
LexLess(s, t) ==
    IF t = << >> THEN FALSE
    ELSE IF s = << >> THEN TRUE
    ELSE IF s[1] = t[1] THEN LexLess(Tail(s), Tail(t))
    ELSE Code(s[1]) < Code(t[1])

\* The last element of names.sort(): the greatest name
LexMax(names) == CHOOSE n \in names : \A m \in names : m = n \/ LexLess(m, n)

RECURSIVE SeqOfSet(_)
\* a set of names as the sorted array files.sort() produces
SeqOfSet(names) ==
    IF names = {} THEN << >>
    ELSE LET m == LexMax(names) IN Append(SeqOfSet(names \ {m}), m)

Range(f) == { f[i] : i \in DOMAIN f }

----------------------------------------------------------------------------
(* Names                                                                   *)

Master == << "m", "a", "s", "t", "e", "r" >>

Main == << "m", "a", "i", "n" >>

\* a trunk name a configuration may give (main_branch) that is not one of the
\* names of MAIN_BRANCHES
Dev == << "d", "e", "v" >>

\* the literal 'origin/' of branchName.replace('origin/', '')
OriginSlash == << "o", "r", "i", "g", "i", "n", "/" >>

\* const MAIN_BRANCHES = ['master', 'main', 'origin/master', 'origin/main']
MAIN_BRANCHES == { Master, Main, OriginSlash \o Master, OriginSlash \o Main }

DotJson == << ".", "j", "s", "o", "n" >>

\* Branch names of the working copies: local x and y, and the remote-tracking
\* form of x as `git branch -a --format=%(refname:short)` prints it.
BrX == << "x" >>

BrY == << "y" >>

BrOriginX == OriginSlash \o BrX

BranchNames == { BrX, BrY, BrOriginX }

\* Repository names of the configuration file (repo.name); repo.path is
\* modelled by the name as well (one working copy per configured repository).
RepoA == << "f", "o" >>

RepoB == << "f", "o", "b" >>

\* an entry of config.repositories: repo.name, and the trunk of the
\* repository, repo.main_branch || config.main_branch
Repo(name, mainBranch) == [ name |-> name, main_branch |-> mainBranch ]

----------------------------------------------------------------------------
(* Time                                                                    *)

MsPerSecond == 1000

SecondsPerDay == 86400

\* config.branch_age_days
BranchAgeDays == 30

\* Midnight of the day of the run, in seconds since the model's epoch
\* (100 days earlier), and the time of day at which the model starts (ms):
\* half a second after 10:00:00.
DayStartSec == 100 * SecondsPerDay

StartMs == 10 * 3600 * MsPerSecond + 500

\* Each tick of the clock advances it by TickMs; at most MaxTicks ticks.
TickMs == 500

MaxTicks == 1

\* The date part of new Date().toISOString() on the day of the run
IsoDate == << "2", "0", "2", "5", "-", "0", "6", "-", "0", "1", "T" >>

\* new Date().toISOString() at ms milliseconds after midnight:
\* YYYY-MM-DDTHH:MM:SS.mmmZ
ToISOString(ms) ==
    LET sec == ms \div MsPerSecond
    IN  IsoDate \o Pad(sec \div 3600, 2) \o << ":" >> \o Pad((sec \div 60) % 60, 2)
            \o << ":" >> \o Pad(sec % 60, 2) \o << "." >> \o Pad(ms % MsPerSecond, 3)
            \o << "Z" >>

\* .replace(/[:.]/g, '-')
ReplaceColonDot(s) == [ i \in 1..Len(s) |-> IF s[i] \in { ":", "." } THEN "-" ELSE s[i] ]

\* getTimestamp(): toISOString().replace(/[:.]/g, '-').slice(0, -5)
getTimestamp(ms) ==
    LET s == ReplaceColonDot(ToISOString(ms))
    IN  SubSeq(s, 1, Len(s) - 5)

----------------------------------------------------------------------------
(* Commits                                                                 *)

\* A commit is identified by its history: the sequence of changes (atoms) from
\* the root commit to it.  Its parent is the sequence without the last atom,
\* an ancestor is a prefix, and two commits with different histories are
\* different commits, as with git's content addressed identifiers.
\*   trunk:  A(1) - B(2) - C(3)
\*   off B:  D(4) - E(5)          (the branch of the end-to-end scenario)
\*   off A:  F(6)                 (unmerged, last commit 45 days old)
\*   off B:  G(7)                 (unmerged, 45 days old, subject holds a '|')
\*   root:   H(8)                 (a history of its own: no commit in common
\*                                 with the trunk, 3 days old)
\*   off C:  I(9)                 (the remote's trunk, one commit ahead)
\* The history rewrite turns atom a into a + Rewritten: a new identifier with
\* the same subject, author and author date.
Rewritten == 10

CommitA == << 1 >>

CommitB == << 1, 2 >>

CommitC == << 1, 2, 3 >>

CommitD == << 1, 2, 4 >>

CommitE == << 1, 2, 4, 5 >>

CommitF == << 1, 6 >>

CommitG == << 1, 2, 7 >>

CommitH == << 8 >>

CommitI == << 1, 2, 3, 9 >>

Trunk0 == CommitC

\* Tips a branch of the initial working copy may point at
Tips == { CommitB, CommitC, CommitD, CommitE, CommitF, CommitG, CommitH, CommitI }

Atom(c) == c[Len(c)] % Rewritten

\* age of the change in days when the model starts
AgeDays(a) ==
    CASE a = 1 -> 60 [] a = 2 -> 50 [] a = 3 -> 1 [] a = 4 -> 10
      [] a = 5 -> 2  [] a = 6 -> 45 [] a = 7 -> 45 [] a = 8 -> 3 [] OTHER -> 0

\* %s: the subject line
Subject(a) ==
    CASE a = 1 -> << "a" >> [] a = 2 -> << "b" >> [] a = 3 -> << "c" >>
      [] a = 4 -> << "d" >> [] a = 5 -> << "e" >> [] a = 6 -> << "f" >>
      [] a = 7 -> << "g", "|", "h" >> [] a = 8 -> << "h" >> [] a = 9 -> << "i" >>
      [] OTHER -> << "z" >>

\* %an and %ae
AuthorName(a) == << "n" >>

AuthorEmail(a) == << "n", "-", "m" >>

\* %at and the time of %ci, seconds since the model's epoch
CommitSec(a) == DayStartSec + (StartMs \div MsPerSecond) - AgeDays(a) * SecondsPerDay

\* %ci: the committer date as text; new Date(text) reads it back
CiWidth == 8

FormatCi(a) == Pad(CommitSec(a), CiWidth)

\* %H: the identifier as text, two digits per atom
RECURSIVE ShaText(_)
ShaText(c) == IF c = << >> THEN << >> ELSE ShaText(SubSeq(c, 1, Len(c) - 1)) \o Pad(c[Len(c)], 2)

RECURSIVE ShaCommit(_)
ShaCommit(t) ==
    IF Len(t) < 2 THEN << >>
    ELSE Append(ShaCommit(SubSeq(t, 1, Len(t) - 2)), ParseDigits(SubSeq(t, Len(t) - 1, Len(t))))

IsPrefix(p, c) == Len(p) <= Len(c) /\ SubSeq(c, 1, Len(p)) = p

\* the commits reachable from c: c and its ancestors
Ancestors(c) == { SubSeq(c, 1, k) : k \in 1..Len(c) }

\* git merge-base a b: the longest common prefix, << >> when there is none
MergeBaseOf(a, b) ==
    LET common == { k \in 0..Len(a) : k <= Len(b) /\ SubSeq(a, 1, k) = SubSeq(b, 1, k) }
        k == CHOOSE n \in common : \A m \in common : m <= n
    IN  SubSeq(a, 1, k)

----------------------------------------------------------------------------
(* State                                                                   *)

VARIABLES
    clock,      \* Date.now(): milliseconds after midnight of the day of the run
    config,     \* config.repositories: the sequence of repository names
    wc,         \* wc[r]: the working copy at repo.path of repository r
    origin,     \* origin[r]: the branches of the remote of repository r
    backups,    \* backup directory: backup path -> the refs of the copied working copy
    files,      \* metadata directory: file name -> the record written to it
    proc,       \* the running process: mode, position in its loops, counters
    survey,     \* survey[r]: what the last classification of r saw and returned
    ops,        \* the commands of the current process that changed a repository
    done,       \* done[r]: the outcome of each reconstructBranchFromBackup call for r
                \* made by the current process
    store,      \* prBot: the state file of the data repository and its sha
    channel,    \* prBot: the messages of the Slack channel
    bots,       \* prBot: bots[b]: the workflow run b of the bot, where it is and what it holds
    botlog      \* prBot: the calls of the state manager that have ended, in order

\* the variables of prBot
botVars == << store, channel, bots, botlog >>

\* the variables of the two secrets-removal programs
toolVars == << clock, config, wc, origin, backups, files, proc, survey, ops, done >>

vars == << clock, config, wc, origin, backups, files, proc, survey, ops, done, store, channel, bots, botlog >>

\* How many times the program is started
MaxRuns == 2

Repos == 1..Len(config)

NoCommit == << >>

Detached == << >>

\* an empty mapping ({} in the code)
EmptyMap == [ n \in {} |-> NoCommit ]

Put(f, k, v) == [ x \in DOMAIN f \cup {k} |-> IF x = k THEN v ELSE f[x] ]

Drop(f, k) == [ x \in DOMAIN f \ {k} |-> f[x] ]

\* Date.now() in whole seconds since the model's epoch, and the milliseconds beyond
NowSec(ms) == DayStartSec + ms \div MsPerSecond

NowFrac(ms) == ms % MsPerSecond

----------------------------------------------------------------------------
(* Working copy: what the git commands of the program do to it             *)

\* the commit HEAD is at
HeadCommit(w) == IF w.head = Detached THEN w.at ELSE w.refs[w.head]

\* git branch -D name: fails when there is no such branch or it is checked out
CanDeleteBranch(w, name) == name \in DOMAIN w.refs /\ w.head # name

DeleteBranch(w, name) == [ w EXCEPT !.refs = Drop(w.refs, name) ]

\* git checkout <branch>: HEAD moves to the branch
CheckoutBranch(w, name) == [ w EXCEPT !.head = name, !.at = NoCommit ]

\* git checkout <sha>: detached HEAD at the commit
CheckoutCommit(w, c) == [ w EXCEPT !.head = Detached, !.at = c ]

\* git checkout -b name: a new branch at HEAD, checked out; fails when it exists
CanCreateBranch(w, name) == name \notin DOMAIN w.refs

CreateBranch(w, name) ==
    [ w EXCEPT !.refs = Put(w.refs, name, HeadCommit(w)), !.head = name, !.at = NoCommit ]

\* git cherry-pick sha: a new commit on HEAD that makes the change of sha
PickedCommit(w, c) == Append(HeadCommit(w), c[Len(c)])

CherryPick(w, c) ==
    IF w.head = Detached THEN [ w EXCEPT !.at = PickedCommit(w, c) ]
    ELSE [ w EXCEPT !.refs = Put(w.refs, w.head, PickedCommit(w, c)) ]

\* the commits a working copy holds: those its own refs reach and, once
\* `git fetch backup` has run, those of the backup
Reachable(refs) == UNION { Ancestors(refs[n]) : n \in DOMAIN refs }

Objects(w) == Reachable(w.refs) \cup Ancestors(HeadCommit(w)) \cup w.fetched

----------------------------------------------------------------------------
(* BranchClassifier: getBranchesToReconstruct                              *)

\* git branch -a --format="%(refname:short)", split on '\n', without '' and 'HEAD'
branchList(w) == DOMAIN w.refs

\* git log -1 --format="%H|%an|%ae|%s|%ci" branch: the output line
lastCommitDetails(w, branch) ==
    LET c == w.refs[branch]
        a == Atom(c)
    IN  Join(<< ShaText(c), AuthorName(a), AuthorEmail(a), Subject(a), FormatCi(a) >>, "|")

\* const [sha, author, email, message, commitDate] = output.split('|')
DetailFields(w, branch) ==
    LET f == Split(lastCommitDetails(w, branch), "|")
    IN  [ sha |-> f[1], author |-> f[2], email |-> f[3], message |-> f[4], commitDate |-> f[5] ]

\* new Date(commitDate) is a valid date only for text in the format of %ci
ValidDate(text) == Len(text) = CiWidth /\ AllDigits(text)

\* daysSinceLastCommit > daysThreshold, where daysSinceLastCommit is
\* (Date.now() - lastCommitDate) / (1000 * 60 * 60 * 24); with an invalid date
\* the difference is NaN and the comparison is false
IsOld(commitDate, now, daysThreshold) ==
    /\ ValidDate(commitDate)
    /\ LET d == NowSec(now) - ParseDigits(commitDate)
       IN  \/ d > daysThreshold * SecondsPerDay
           \/ d = daysThreshold * SecondsPerDay /\ NowFrac(now) > 0

\* Math.floor(daysSinceLastCommit): << n >>, or << >> for NaN
FloorDays(commitDate, now) ==
    IF ValidDate(commitDate)
    THEN << (NowSec(now) - ParseDigits(commitDate)) \div SecondsPerDay >>
    ELSE << >>

\* git merge-base --is-ancestor branch mainBranch: exit status 0
mergeCheck(w, branch, mainBranch) ==
    /\ mainBranch \in DOMAIN w.refs
    /\ IsPrefix(w.refs[branch], w.refs[mainBranch])

\* git rev-list --count mainBranch..branch: success and the count
uniqueCommits(w, branch, mainBranch) ==
    IF mainBranch \in DOMAIN w.refs
    THEN [ success |-> TRUE,
           count |-> Cardinality(Ancestors(w.refs[branch]) \ Ancestors(w.refs[mainBranch])) ]
    ELSE [ success |-> FALSE, count |-> 0 ]

\* A variant of QuerySucceeds that takes every query to have given a commit
QueryAssumedOk(branch, failing) == TRUE

\* if (lastCommitDetails.success): `git log -1` gave the last commit of the
\* branch; failing is the set of branches for which the command fails
QuerySucceeds(branch, failing) == branch \notin failing

\* A variant of NeedsReconstruction that leaves out both merge tests
NeedsReconstructionNoMergeTest(w, branch, mainBranch, now, daysThreshold) ==
    /\ branch \notin MAIN_BRANCHES
    /\ ~IsOld(DetailFields(w, branch).commitDate, now, daysThreshold)

\* The body of the loop over branchList: TRUE when the branch is recorded
NeedsReconstruction(w, branch, mainBranch, now, daysThreshold) ==
    /\ branch \notin MAIN_BRANCHES
    /\ ~IsOld(DetailFields(w, branch).commitDate, now, daysThreshold)
    /\ ~mergeCheck(w, branch, mainBranch)
    /\ ~(uniqueCommits(w, branch, mainBranch).success
            /\ uniqueCommits(w, branch, mainBranch).count = 0)

\* branches[branch] = { sha, author, email, message, lastCommitDate, daysSinceLastCommit }
BranchRecord(w, branch, now) ==
    LET f == DetailFields(w, branch)
    IN  [ sha |-> f.sha, author |-> f.author, email |-> f.email, message |-> f.message,
          lastCommitDate |-> f.commitDate,
          daysSinceLastCommit |-> FloorDays(f.commitDate, now) ]

\* listOk: whether `git branch` succeeded (it fails when repoPath is no
\* repository); failing: the branches whose `git log -1` fails
getBranchesToReconstruct(w, mainBranch, now, daysThreshold, listOk, failing) ==
    IF ~listOk THEN EmptyMap
    ELSE [ b \in { n \in branchList(w) :
                     /\ QuerySucceeds(n, failing)
                     /\ NeedsReconstruction(w, n, mainBranch, now, daysThreshold) }
             |-> BranchRecord(w, b, now) ]

----------------------------------------------------------------------------
(* RunMetadataStore: saveBranchesMetadata, getLatestMetadataForRepo        *)

\* `${repo.name}_${timestamp}.json` in the metadata directory
metadataFileName(repoName, timestamp) == repoName \o << "_" >> \o timestamp \o DotJson

\* `${repo.name}_${runTimestamp}` in the backup directory
backupPathOf(repoName, timestamp) == repoName \o << "_" >> \o timestamp

\* the object saveBranchesMetadata writes; JSON.stringify and JSON.parse give
\* it back field by field (NaN, written as null, is << >> on both sides)
branchesMetadata(branches, repoName, timestamp, mainBranch, backupPath) ==
    [ mainBranch |-> mainBranch, branches |-> branches, repoPath |-> repoName,
      backupPath |-> backupPath, repoName |-> repoName, timestamp |-> timestamp ]

\* fs.writeFile(metadataFileName, ...): creates the file or replaces its contents
saveBranchesMetadata(dir, branches, repoName, timestamp, mainBranch, backupPath) ==
    Put(dir, metadataFileName(repoName, timestamp),
        branchesMetadata(branches, repoName, timestamp, mainBranch, backupPath))

NoFile == << >>

\* files.filter(startsWith(repoName) && endsWith('.json')).sort(): the last one, or null
getLatestMetadataForRepo(repoName, dir) ==
    LET repoFiles == SeqOfSet({ f \in DOMAIN dir : StartsWith(f, repoName) /\ EndsWith(f, DotJson) })
    IN  IF Len(repoFiles) > 0 THEN repoFiles[Len(repoFiles)] ELSE NoFile

----------------------------------------------------------------------------
(* HistoryRewriter: git filter-repo --replace-text, as the program sees it *)

\* The rewrite of the trunk from its from-th commit on: every rewritten commit
\* gets a new identifier and keeps subject, author and author date; the commit
\* at position prune (0: none) is dropped from the rewritten history.
RECURSIVE RewriteFrom(_, _, _, _)
RewriteFrom(c, from, prune, k) ==
    IF k > Len(c) THEN << >>
    ELSE (IF k = prune THEN << >>
          ELSE IF k >= from THEN << c[k] + Rewritten >> ELSE << c[k] >>)
         \o RewriteFrom(c, from, prune, k + 1)

\* The position on the trunk of the first commit that holds a secret
FirstSecretAt == 2

\* what the tool may do to a trunk: rewrite it from the first secret on, and
\* keep or drop the commit that introduced the secret
RewriteChoices(trunk) ==
    { ch \in [ from : { FirstSecretAt }, prune : { 0, FirstSecretAt } ] : ch.from <= Len(trunk) }

\* the working copy after a successful rewrite: the trunk is rewritten and checked out
Rewrite(w, mainBranch, ch) ==
    [ w EXCEPT !.refs = Put(w.refs, mainBranch, RewriteFrom(w.refs[mainBranch], ch.from, ch.prune, 1)),
               !.head = mainBranch, !.at = NoCommit ]

----------------------------------------------------------------------------
(* BranchReconstructor: reconstructBranchFromBackup                        *)

\* an entry of ops: command op on branch `branch` of repository path `repo`,
\* issued while reconstructing saved branch `for`, about commit `commit`
Op(op, repo, branch, for, commit) ==
    [ op |-> op, repo |-> repo, branch |-> branch, for |-> for, commit |-> commit ]

\* %at as text
FormatAt(a) == Pad(CommitSec(a), CiWidth)

\* git log -1 --format="%s%n%ae%n%at" mergeBase, split on '\n'
mergeBaseCommitDetails(base) ==
    LET a == Atom(base)
        f == Split(Join(<< Subject(a), AuthorEmail(a), FormatAt(a) >>, "\n"), "\n")
    IN  [ subject |-> f[1], email |-> f[2], timestamp |-> f[3] ]

\* a line of git log --all --format="%H %s %ae %at"
IdentityLine(c) ==
    Join(<< ShaText(c), Subject(Atom(c)), AuthorEmail(Atom(c)), FormatAt(Atom(c)) >>, " ")

\* the lines grep -F "${subject} ${email} ${timestamp}" keeps
EquivalentCommits(w, d) ==
    { c \in Reachable(w.refs) :
        IndexOf(IdentityLine(c), Join(<< d.subject, d.email, d.timestamp >>, " ")) # 0 }

\* | head -1 | cut -d' ' -f1: the identifier on the first line kept, '' when
\* there is none; git log prints the newest commit first
findEquivalentCommit(w, d) ==
    LET m == EquivalentCommits(w, d)
    IN  IF m = {} THEN NoCommit
        ELSE CHOOSE c \in m : \A o \in m : Len(o) <= Len(c) /\ (Len(o) = Len(c) => ~LexLess(ShaText(c), ShaText(o)))

\* A variant of shasOfCommitsBetweenMergeBaseAndTip that lists the merge-base too
shasFromMergeBaseToTip(base, tip) ==
    [ i \in 1..(Len(tip) - Len(base) + 1) |-> SubSeq(tip, 1, Len(tip) - i + 1) ]

\* git log --format="%H" mergeBase..sha: newest first
shasOfCommitsBetweenMergeBaseAndTip(base, tip) ==
    [ i \in 1..(Len(tip) - Len(base)) |-> SubSeq(tip, 1, Len(tip) - i + 1) ]

\* Array.prototype.reverse
Reverse(q) == [ i \in 1..Len(q) |-> q[Len(q) - i + 1] ]

\* A variant of ReplayOrder that does not reverse git's newest-first order
ReplayOrderNewestFirst(base, tip) == shasOfCommitsBetweenMergeBaseAndTip(base, tip)

\* const shas = output.split('\n').filter(sha => sha).reverse()
ReplayOrder(base, tip) == Reverse(shasOfCommitsBetweenMergeBaseAndTip(base, tip))

\* git cherry-pick sha succeeds when the working copy holds the commit and the
\* change applies (conflicts: the commits whose change does not apply)
RECURSIVE ReplayUntilConflict(_, _, _, _, _)
\* A variant of Replay that stops at the first commit that does not apply
ReplayUntilConflict(w, shas, conflicts, repo, for) ==
    IF shas = << >> THEN [ w |-> w, ops |-> << >> ]
    ELSE LET sha == Head(shas)
             ok == sha \in Objects(w) /\ sha \notin conflicts
         IN  IF ~ok THEN [ w |-> w, ops |-> << Op("abort", repo, w.head, for, sha) >> ]
             ELSE LET rest == ReplayUntilConflict(CherryPick(w, sha), Tail(shas), conflicts, repo, for)
                  IN  [ w |-> rest.w, ops |-> << Op("pick", repo, w.head, for, sha) >> \o rest.ops ]

RECURSIVE Replay(_, _, _, _, _)
\* for (const sha of shas): cherry-pick, and cherry-pick --abort when it fails
Replay(w, shas, conflicts, repo, for) ==
    IF shas = << >> THEN [ w |-> w, ops |-> << >> ]
    ELSE LET sha == Head(shas)
             ok == sha \in Objects(w) /\ sha \notin conflicts
             w1 == IF ok THEN CherryPick(w, sha) ELSE w
             rest == Replay(w1, Tail(shas), conflicts, repo, for)
         IN  [ w |-> rest.w,
               ops |-> << Op(IF ok THEN "pick" ELSE "abort", repo, w.head, for, sha) >> \o rest.ops ]

\* The outcomes of one call: it returns true, returns false, or raises
ReturnedTrue == "true"

ReturnedFalse == "false"

Threw == "TypeError"

\* A variant of mergeBase that gives the tip of the backup's trunk when the
\* two histories have no commit in common
mergeBaseOrTrunk(bk, backupPath, mainBranch, tip) ==
    IF /\ backupPath \in DOMAIN bk
       /\ mainBranch \in DOMAIN bk[backupPath].refs
       /\ tip \in Objects(bk[backupPath])
    THEN IF MergeBaseOf(bk[backupPath].refs[mainBranch], tip) = NoCommit
         THEN bk[backupPath].refs[mainBranch]
         ELSE MergeBaseOf(bk[backupPath].refs[mainBranch], tip)
    ELSE NoCommit

\* git merge-base mainBranch sha, run in the backup: the commit, or NoCommit
\* when the command fails (no backup at the path, unknown revision, no
\* common ancestor)
mergeBase(bk, backupPath, mainBranch, tip) ==
    IF /\ backupPath \in DOMAIN bk
       /\ mainBranch \in DOMAIN bk[backupPath].refs
       /\ tip \in Objects(bk[backupPath])
    THEN MergeBaseOf(bk[backupPath].refs[mainBranch], tip)
    ELSE NoCommit

\* const cleanBranchName = branchName.replace('origin/', '')
cleanBranchNameOf(branchName) == ReplaceFirst(branchName, OriginSlash, << >>)

\* What a call returns says nothing of the commits it could not apply (the
\* value is a boolean): no count
Unrecorded == << >>

\* What one call went through: the divergence point, the commits of the
\* working copy that carry its identity, the one the search gave, whether the
\* trunk was checked out, whether the branch was created and where, whether
\* the commits to replay could be listed, the
\* applications in the order made, the tip of the branch after them, the
\* count of skipped commits the return value reports, whether the push
\* succeeded
Trace(base, matches, found, trunk, switched, created, anchor, listed, attempts, tip, pushed) ==
    [ base |-> base, matches |-> matches, found |-> found, trunk |-> trunk,
      switched |-> switched, created |-> created, anchor |-> anchor,
      listed |-> listed, attempts |-> attempts, tip |-> tip, skipped |-> Unrecorded, pushed |-> pushed ]

\* A variant of TakesFallback that falls back only when the search failed
TakesFallbackOnFailure(success, output) == ~success

\* if (!findEquivalentCommit.success || !findEquivalentCommit.output)
TakesFallback(success, output) == ~success \/ output = NoCommit

\* run(`git checkout ${mainBranch}`, cleanPath), result not looked at
FallbackCheckout(w, mainBranch, ok) ==
    IF ok /\ mainBranch \in DOMAIN w.refs THEN CheckoutBranch(w, mainBranch) ELSE w

\* A variant of PushResult that does not look at what the push did
PushResultIgnored(pushed) == ReturnedTrue

\* if (!pushResult.success) return false; ... return true
PushResult(pushed) == IF pushed THEN ReturnedTrue ELSE ReturnedFalse

\* reconstructBranchFromBackup(branchName, branchInfo, backupPath, cleanPath, mainBranch)
\* on working copy w with remote org.  env is what the outside world decides:
\* findOk (the search pipeline ran), checkoutOk, logOk (the commits to replay
\* could be listed), conflicts, pushOk.
\* Gives the working copy and remote afterwards, the outcome, the commands
\* and the trace of the call.
reconstructBranchFromBackup(w, org, bk, branchName, branchInfo, backupPath, cleanPath, mainBranch, env) ==
    LET clean == cleanBranchNameOf(branchName)
        tip == ShaCommit(branchInfo.sha)
        \* run(`git branch -D ${cleanBranchName} 2>/dev/null`, cleanPath)
        deleted == CanDeleteBranch(w, clean)
        w1 == IF deleted THEN DeleteBranch(w, clean) ELSE w
        ops1 == IF deleted THEN << Op("delete", cleanPath, clean, branchName, w.refs[clean]) >> ELSE << >>
        base == mergeBase(bk, backupPath, mainBranch, tip)
        d == mergeBaseCommitDetails(base)
        matches == EquivalentCommits(w1, d)
        found == IF env.findOk THEN findEquivalentCommit(w1, d) ELSE NoCommit
        switched == env.checkoutOk /\ mainBranch \in DOMAIN w1.refs
        trunk == IF mainBranch \in DOMAIN w1.refs THEN w1.refs[mainBranch] ELSE NoCommit
        w2 == FallbackCheckout(w1, mainBranch, env.checkoutOk)
        \* run(`git checkout -b ${cleanBranchName}`, cleanPath)
        created == CanCreateBranch(w2, clean)
        w3 == IF created THEN CreateBranch(w2, clean) ELSE w2
        ops3 == ops1 \o << Op("create", cleanPath, clean, branchName, HeadCommit(w2)) >>
        replayed == Replay(w3, ReplayOrder(base, tip), env.conflicts, cleanPath, branchName)
        w4 == replayed.w
        ops4 == ops3 \o replayed.ops
        \* run(`git push --force origin ${cleanBranchName}`, cleanPath)
        pushed == env.pushOk /\ "origin" \in w4.remotes
    IN  IF base = NoCommit
        THEN [ w |-> w1, origin |-> org, result |-> ReturnedFalse, ops |-> ops1,
               trace |-> Trace(NoCommit, {}, NoCommit, trunk, FALSE, FALSE, NoCommit, FALSE, << >>, NoCommit, FALSE) ]
        ELSE IF ~TakesFallback(env.findOk, found)
        \* findEquivalentCommit.output.sunstring(0, 8): not a function
        THEN [ w |-> w1, origin |-> org, result |-> Threw, ops |-> ops1,
               trace |-> Trace(base, matches, found, trunk, FALSE, FALSE, NoCommit, FALSE, << >>, NoCommit, FALSE) ]
        ELSE IF ~created
        THEN [ w |-> w2, origin |-> org, result |-> ReturnedFalse, ops |-> ops1,
               trace |-> Trace(base, matches, found, trunk, switched, FALSE, NoCommit, FALSE, << >>, NoCommit, FALSE) ]
        ELSE IF ~env.logOk
        \* could not get commits: return false, the new branch left as it is
        THEN [ w |-> w3, origin |-> org, result |-> ReturnedFalse, ops |-> ops3,
               trace |-> Trace(base, matches, found, trunk, switched, TRUE, HeadCommit(w2),
                               FALSE, << >>, w3.refs[clean], FALSE) ]
        ELSE [ w |-> w4,
               origin |-> IF pushed THEN Put(org, clean, w4.refs[clean]) ELSE org,
               result |-> PushResult(pushed),
               ops |-> ops4 \o << Op(IF pushed THEN "push" ELSE "push-failed",
                                     cleanPath, clean, branchName, w4.refs[clean]) >>,
               trace |-> Trace(base, matches, found, trunk, switched, TRUE, HeadCommit(w2),
                               TRUE, replayed.ops, w4.refs[clean], pushed) ]

----------------------------------------------------------------------------
(* Initial state                                                           *)

\* Where a branch of the first working copy may point: x is the branch of the
\* end-to-end scenario (tip E) or a stale one (tip F); origin/x is the remote's
\* x, ahead of or equal to the local one; y is merged and stale (B), merged and
\* fresh (C), unmerged and fresh (D), unmerged and stale with a '|' in the
\* subject of its last commit (G), or a history of its own (H).
TipsOf(name) ==
    IF name = BrX THEN { CommitE, CommitF }
    ELSE IF name = BrOriginX THEN { CommitE }
    ELSE IF name \in { OriginSlash \o Main, OriginSlash \o Dev } THEN { CommitC, CommitI }
    ELSE { CommitB, CommitC, CommitD, CommitG, CommitH }

\* how many branches besides the trunk the first working copy starts with
MaxBranches == 2

\* refs of a fresh working copy: the trunk and some branches
InitialRefs ==
    { Put(f, Main, Trunk0) :
        f \in UNION { { g \in [ S -> Tips ] : \A n \in S : g[n] \in TipsOf(n) } :
                        S \in { T \in SUBSET BranchNames : Cardinality(T) <= MaxBranches } } }

WorkingCopy(refs, mainBranch) ==
    [ refs |-> refs, head |-> mainBranch, at |-> NoCommit, remotes |-> { "origin" }, fetched |-> {},
      tree |-> {} ]

\* the branches of the remote: the trunk, and what the remote-tracking refs show
InitialOrigin(refs, mainBranch) ==
    [ n \in { mainBranch } \cup { cleanBranchNameOf(b) : b \in { o \in DOMAIN refs : StartsWith(o, OriginSlash) } }
        |-> IF OriginSlash \o n \in DOMAIN refs THEN refs[OriginSlash \o n] ELSE Trunk0 ]

\* What is known of the classifications of one repository: the last one (the
\* branches listed, the ones selected, the time, how cleanRepo ended), the file
\* of the last save, and for each file written the listing and selection saved
\* and whether the run that wrote it made the backup and rewrote the history
NoSurvey == [ valid |-> FALSE, refs |-> EmptyMap, out |-> EmptyMap, now |-> 0, result |-> "none",
              main |-> NoFile, listOk |-> TRUE, failed |-> {}, latest |-> NoFile, seen |-> EmptyMap ]

NoCalls == [ file |-> NoFile, total |-> 0, calls |-> << >>, reported |-> << >> ]

\* args[0] when the command line gives no argument (undefined: falsy)
NoArg == ""

Idle == [ mode |-> "idle", dry |-> FALSE, i |-> 0, phase |-> "none", queue |-> << >>,
          file |-> NoFile, success |-> 0, runs |-> 0, code |-> 0,
          arg |-> NoArg, task |-> "none" ]

\* the state before the program is first started, for a configuration and
\* the refs of the first repository's working copy
\* prBot: the workflow runs that may be under way at the same time
Runners == { 1, 2 }

\* prBot: the pull requests of the watched repository
PRs == { 1, 2 }

\* prBot: metadata.approvalListMessageTs when it is null
NoTs == 0

\* prBot: the state file before any event: no repository, no list message
InitialState == [ prs |-> EmptyMap, ts |-> NoTs ]

NoEvent == [ action |-> "none", pr |-> 0, reviewState |-> "", ignore |-> FALSE,
             build |-> FALSE, approved |-> FALSE, changes |-> FALSE ]

NoOp == [ kind |-> "none", pr |-> 0, updates |-> EmptyMap, ts |-> NoTs, after |-> "done", quiet |-> FALSE ]

\* prBot: no workflow run in slot b
NoRun == [ run |-> 0, pc |-> "idle", event |-> NoEvent, op |-> NoOp, attempt |-> 0,
           state |-> InitialState, sha |-> 0, message |-> FALSE, posting |-> "list",
           error |-> "none", code |-> 0 ]

InitWith(repositories, refs) ==
    /\ clock = StartMs
    /\ config = repositories
    /\ wc = [ r \in 1..Len(config) |->
                IF r = 1 THEN WorkingCopy(refs, config[r].main_branch)
                ELSE WorkingCopy(Put(EmptyMap, config[r].main_branch, Trunk0), config[r].main_branch) ]
    /\ origin = [ r \in 1..Len(config) |-> InitialOrigin(wc[r].refs, config[r].main_branch) ]
    /\ backups = EmptyMap
    /\ files = EmptyMap
    /\ proc = Idle
    /\ survey = [ r \in 1..Len(config) |-> NoSurvey ]
    /\ ops = << >>
    /\ done = [ r \in 1..Len(config) |-> NoCalls ]
    /\ store = [ state |-> InitialState, sha |-> 0 ]
    /\ channel = [ last |-> NoTs, messages |-> {} ]
    /\ bots = [ b \in Runners |-> NoRun ]
    /\ botlog = [ runs |-> 0, calls |-> << >>, concurrent |-> FALSE, failed |-> FALSE ]

\* one configured repository, every working copy of InitialRefs
Init == \E refs \in InitialRefs : InitWith(<< Repo(RepoA, Main) >>, refs)

\* two configured repositories, the name of the first a prefix of the second's
InitBatch ==
    \E refs \in { Put(Put(EmptyMap, Main, Trunk0), BrX, CommitE), Put(EmptyMap, Main, Trunk0) } :
        InitWith(<< Repo(RepoA, Main), Repo(RepoB, Main) >>, refs)

\* The inputs of the classifier taken alone: a trunk under a configured name,
\* its remote-tracking branch level with it or one commit ahead, and the
\* branches x and y
ClassifierRefs(mainBranch) ==
    { Put(f, mainBranch, Trunk0) :
        f \in UNION { { g \in [ S -> Tips ] : \A n \in S : g[n] \in TipsOf(n) } :
                        S \in SUBSET { BrX, BrY, OriginSlash \o mainBranch } } }

InitClassify ==
    \E mainBranch \in { Main, Dev } : \E refs \in ClassifierRefs(mainBranch) :
        InitWith(<< Repo(RepoA, mainBranch) >>, refs)

----------------------------------------------------------------------------
(* Actions                                                                 *)

\* Time passes.  A reconstruction run never reads the clock, so the time that
\* passes during one is left to pass after it.
Tick ==
    /\ proc.mode # "reconstruct"
    /\ clock < StartMs + MaxTicks * TickMs
    /\ clock' = clock + TickMs
    /\ UNCHANGED << config, wc, origin, backups, files, proc, survey, ops, done >>
    /\ UNCHANGED botVars

\* main() without --reconstruct: parseArgs, the check that git filter-repo is
\* installed (process.exit(1) when it is not), then the loop over the repositories
StartClean ==
    /\ proc.mode = "idle"
    /\ proc.runs < MaxRuns
    /\ \E dryRun \in BOOLEAN, installed \in BOOLEAN :
          proc' = IF installed
                  THEN [ Idle EXCEPT !.mode = "clean", !.dry = dryRun, !.i = 1, !.phase = "repo",
                                     !.runs = proc.runs + 1 ]
                  ELSE [ Idle EXCEPT !.runs = proc.runs + 1, !.code = 1 ]
    /\ ops' = << >>
    /\ done' = [ r \in 1..Len(config) |-> NoCalls ]
    /\ UNCHANGED << clock, config, wc, origin, backups, files, survey >>
    /\ UNCHANGED botVars

\* What the outside world decides during one cleanRepo: whether the metadata
\* file can be written (writeOk), the copy succeeds (cpOk), the secrets file
\* exists (secretsOk), the rewrite tool succeeds (filterOk) and what it does
\* (ch), and whether the push of the trunk succeeds (pushOk).  A decision about
\* a step the call does not reach is not enumerated.
CleanEnvs(dryRun, trunk) ==
    LET all == [ writeOk : BOOLEAN, cpOk : BOOLEAN, secretsOk : BOOLEAN, filterOk : BOOLEAN,
                 pushOk : BOOLEAN, ch : RewriteChoices(trunk) ]
        first == CHOOSE ch \in RewriteChoices(trunk) : ch.prune = 0
    IN  { e \in all :
            /\ (~e.writeOk \/ dryRun) => (e.cpOk /\ e.secretsOk)
            /\ ~e.secretsOk => e.filterOk
            /\ ~(e.writeOk /\ ~dryRun /\ e.secretsOk /\ e.filterOk) => (e.pushOk /\ e.ch = first) }

\* A variant of IsLive that goes on after a dry run's save
IsLiveInDryRun(saved, dryRun) == saved

\* cleanRepo goes past the dry-run return: saveBranchesMetadata did not raise
\* and the run is not a dry run
IsLive(saved, dryRun) == saved /\ ~dryRun

\* A variant of IsBackedUp that makes the copy whether or not the save raised
IsBackedUpUnsaved(saved, dryRun) == ~dryRun

\* createRepoBackup is called: after the save, in a run that is not a dry run
IsBackedUp(saved, dryRun) == IsLive(saved, dryRun)

\* A variant of RunsRewrite that runs the tool whatever came before
RunsRewriteUnsaved(live, secretsOk) == secretsOk

\* the rewrite tool is run: the secrets file is there (fs.access)
RunsRewrite(live, secretsOk) == live /\ secretsOk

\* A variant of PushesTrunk that pushes whatever the rewrite tool reported
PushesTrunkAnyway(live, secretsOk, filterOk) == live /\ secretsOk

\* cleanSecrets reaches its push: the rewrite tool ran and did not fail
PushesTrunk(live, secretsOk, filterOk) == RunsRewrite(live, secretsOk) /\ filterOk

\* what cleanRepo does: it raises, or returns true or false
CleanRepoResult(saved, dryRun, rewrote) ==
    IF ~saved THEN "threw"
    ELSE IF dryRun THEN "true"
    ELSE IF rewrote THEN "true" ELSE "false"

\* A variant of NextRepo in which an error raised by cleanRepo ends the loop
NextRepoUnlessRaised(i, n, result) == IF result = "threw" THEN n + 1 ELSE i + 1

\* for (const repo of config.repositories) { try { cleanRepo } catch { log } }:
\* the next repository, whatever cleanRepo did
NextRepo(i, n, result) == i + 1

\* One iteration of the loop of main(): cleanRepo(repo, config, dryRun), an
\* error it raises being caught and logged.
CleanRepoStep ==
    /\ proc.mode = "clean"
    /\ proc.i <= Len(config)
    /\ LET r == proc.i
           name == config[r].name
           runTimestamp == getTimestamp(clock)
           mainBranch == config[r].main_branch
           \* in a run every query of the classifier is answered
           branches == getBranchesToReconstruct(wc[r], mainBranch, clock, BranchAgeDays, TRUE, {})
           backupPath == backupPathOf(name, runTimestamp)
           metadataFile == metadataFileName(name, runTimestamp)
           written == saveBranchesMetadata(files, branches, name, runTimestamp, mainBranch, backupPath)
       IN \E env \in CleanEnvs(proc.dry, wc[r].refs[mainBranch]) :
          LET cpOk == env.cpOk
              secretsOk == env.secretsOk
              filterOk == env.filterOk
              \* saveBranchesMetadata raises when the file cannot be written
              saved == env.writeOk
              live == IsLive(saved, proc.dry)
              \* run(`cp -r ...`): the result is not looked at
              backedUp == IsBackedUp(saved, proc.dry)
              copied == backedUp /\ cpOk
              \* fs.access(secretsFile), then cleanSecrets
              ranTool == RunsRewrite(live, secretsOk)
              rewrote == ranTool /\ filterOk
              pushing == PushesTrunk(live, secretsOk, filterOk)
              pushed == pushing /\ env.pushOk /\ "origin" \in wc[r].remotes
              w1 == IF rewrote THEN Rewrite(wc[r], mainBranch, env.ch) ELSE wc[r]
              result == CleanRepoResult(saved, proc.dry, rewrote)
          IN  /\ files' = IF saved
                          THEN written
                          ELSE files
              /\ backups' = IF copied THEN Put(backups, backupPath, wc[r]) ELSE backups
              /\ wc' = [ wc EXCEPT ![r] = w1 ]
              /\ origin' = IF pushed THEN [ origin EXCEPT ![r] = Put(origin[r], mainBranch, w1.refs[mainBranch]) ]
                           ELSE origin
              /\ survey' = [ survey EXCEPT ![r] =
                    [ valid |-> TRUE, refs |-> wc[r].refs, out |-> branches, now |-> clock,
                      result |-> result, main |-> mainBranch, listOk |-> TRUE, failed |-> {},
                      latest |-> IF saved THEN metadataFile ELSE survey[r].latest,
                      seen |-> IF saved
                               THEN Put(survey[r].seen, metadataFile,
                                        [ refs |-> wc[r].refs, out |-> branches,
                                          copied |-> copied, rewrote |-> rewrote ])
                               ELSE survey[r].seen ] ]
              /\ ops' = ops
                    \o (IF saved THEN << Op("save", name, mainBranch, NoFile, NoCommit) >> ELSE << >>)
                    \o (IF backedUp THEN << Op(IF cpOk THEN "backup" ELSE "backup-failed", name, mainBranch, NoFile, NoCommit) >> ELSE << >>)
                    \o (IF ranTool
                        THEN << Op(IF filterOk THEN "rewrite" ELSE "rewrite-failed", name, mainBranch, NoFile, NoCommit) >>
                        ELSE << >>)
                    \o (IF pushing
                        THEN << Op(IF pushed THEN "push-trunk" ELSE "push-trunk-failed", name, mainBranch, NoFile, w1.refs[mainBranch]) >>
                        ELSE << >>)
                    \o << Op(IF result = "threw" THEN "raised"
                              ELSE IF result = "true" THEN "returned-true" ELSE "returned-false",
                              name, mainBranch, NoFile, NoCommit) >>
              /\ proc' = [ proc EXCEPT !.i = NextRepo(proc.i, Len(config), result) ]
    /\ UNCHANGED << clock, config, done >>
    /\ UNCHANGED botVars

\* main() with --reconstruct: reconstructAllReposBranches starts its loop
StartReconstruct ==
    /\ proc.mode = "idle"
    /\ proc.runs < MaxRuns
    /\ proc' = [ Idle EXCEPT !.mode = "reconstruct", !.i = 1, !.phase = "repo", !.runs = proc.runs + 1 ]
    /\ ops' = << >>
    /\ done' = [ r \in 1..Len(config) |-> NoCalls ]
    /\ UNCHANGED << clock, config, wc, origin, backups, files, survey >>
    /\ UNCHANGED botVars

\* the working copy a metadata record names (metadata.repoPath)
RepoAt(path) == CHOOSE r \in 1..Len(config) : config[r].name = path

\* Object.entries(branches): the keys in the order they were inserted, which is
\* the order `git branch -a` lists them: local branches, then remote-tracking ones
EntriesOrder(names) ==
    SeqOfSet({ n \in names : ~StartsWith(n, OriginSlash) })
        \o SeqOfSet({ n \in names : StartsWith(n, OriginSlash) })

\* .filter(([name]) => !MAIN_BRANCHES.includes(name))
featureBranches(metadata) ==
    SelectSeq(EntriesOrder(DOMAIN metadata.branches), LAMBDA n : n \notin MAIN_BRANCHES)

\* git remote remove backup; git remote add backup "${backupPath}"; git fetch backup
AddBackupRemote(w, bk, backupPath) ==
    [ w EXCEPT !.remotes = w.remotes \cup { "backup" },
               !.fetched = IF backupPath \in DOMAIN bk THEN Objects(bk[backupPath]) ELSE {} ]

\* git remote remove backup
RemoveBackupRemote(w) == [ w EXCEPT !.remotes = w.remotes \ { "backup" }, !.fetched = {} ]

\* One iteration of the loop of reconstructAllReposBranches up to the loop over
\* the branches: getLatestMetadataForRepo, then reconstructSingleRepoBranches
\* reads the record, lists the branches and adds the backup as a remote.
ReconstructRepoBegin ==
    /\ proc.mode = "reconstruct"
    /\ proc.phase = "repo"
    /\ proc.i <= Len(config)
    /\ LET r == proc.i
           metadataFile == getLatestMetadataForRepo(config[r].name, files)
       IN  IF metadataFile = NoFile
           THEN \* no metadata found: skipping
                /\ proc' = [ proc EXCEPT !.i = proc.i + 1 ]
                /\ UNCHANGED << wc, done, ops >>
           ELSE LET metadata == files[metadataFile]
                    todo == featureBranches(metadata)
                    rc == RepoAt(metadata.repoPath)
                IN  IF Len(todo) = 0
                    THEN \* no branches to reconstruct
                         /\ proc' = [ proc EXCEPT !.i = proc.i + 1 ]
                         /\ done' = [ done EXCEPT ![r] = [ NoCalls EXCEPT !.file = metadataFile ] ]
                         /\ UNCHANGED << wc, ops >>
                    ELSE /\ proc' = [ proc EXCEPT !.phase = "branches", !.queue = todo,
                                                  !.file = metadataFile, !.success = 0 ]
                         /\ done' = [ done EXCEPT ![r] = [ NoCalls EXCEPT !.file = metadataFile,
                                                                         !.total = Len(todo) ] ]
                         /\ wc' = [ wc EXCEPT ![rc] = AddBackupRemote(wc[rc], backups, metadata.backupPath) ]
                         /\ ops' = Append(ops, Op("remote-add", metadata.repoPath, NoFile, NoFile, NoCommit))
    /\ UNCHANGED << clock, config, origin, backups, files, survey >>
    /\ UNCHANGED botVars

\* What the outside world decides during one reconstructBranchFromBackup:
\* whether the search pipeline runs (findOk), the checkout of the trunk
\* succeeds (checkoutOk), whether the commits to replay can be listed (logOk),
\* which commits do not apply (conflicts), whether the push succeeds (pushOk).
\* A decision about a step the call does not reach (no divergence point, the
\* search gave a commit, or the commits could not be listed) is not enumerated.
ReconstructEnvs(w, bk, branchName, branchInfo, backupPath, mainBranch) ==
    LET clean == cleanBranchNameOf(branchName)
        tip == ShaCommit(branchInfo.sha)
        w1 == IF CanDeleteBranch(w, clean) THEN DeleteBranch(w, clean) ELSE w
        base == mergeBase(bk, backupPath, mainBranch, tip)
        matched == base # NoCommit /\ EquivalentCommits(w1, mergeBaseCommitDetails(base)) # {}
        all == [ findOk : BOOLEAN, checkoutOk : BOOLEAN, logOk : BOOLEAN, pushOk : BOOLEAN,
                 conflicts : IF base = NoCommit THEN { {} } ELSE SUBSET Range(ReplayOrder(base, tip)) ]
    IN  { e \in all :
            /\ base = NoCommit => (e.findOk /\ e.checkoutOk /\ e.logOk /\ e.pushOk)
            /\ (e.findOk /\ matched) => (e.checkoutOk /\ e.logOk /\ e.pushOk /\ e.conflicts = {})
            /\ ~e.logOk => (e.pushOk /\ e.conflicts = {}) }

\* One iteration of the loop over the branches in reconstructSingleRepoBranches:
\* reconstructBranchFromBackup for the next branch.  An error it raises leaves
\* reconstructSingleRepoBranches and is caught in reconstructAllReposBranches,
\* which goes on with the next repository.
ReconstructBranchStep ==
    /\ proc.mode = "reconstruct"
    /\ proc.phase = "branches"
    /\ proc.queue # << >>
    /\ LET r == proc.i
           metadata == files[proc.file]
           rc == RepoAt(metadata.repoPath)
           branchName == Head(proc.queue)
           branchInfo == metadata.branches[branchName]
       IN  \E env \in ReconstructEnvs(wc[rc], backups, branchName, branchInfo,
                                         metadata.backupPath, metadata.mainBranch) :
              LET out == reconstructBranchFromBackup(wc[rc], origin[rc], backups, branchName, branchInfo,
                                                     metadata.backupPath, metadata.repoPath,
                                                     metadata.mainBranch, env)
              IN  /\ wc' = [ wc EXCEPT ![rc] = out.w ]
                  /\ origin' = [ origin EXCEPT ![rc] = out.origin ]
                  /\ ops' = ops \o out.ops
                  /\ done' = [ done EXCEPT ![r].calls = Append(@,
                                  [ branch |-> branchName, sha |-> branchInfo.sha,
                                    result |-> out.result, trace |-> out.trace ]) ]
                  /\ proc' = IF out.result = Threw
                             THEN [ proc EXCEPT !.i = proc.i + 1, !.phase = "repo", !.queue = << >> ]
                             ELSE [ proc EXCEPT !.queue = Tail(proc.queue),
                                                !.success = IF out.result = ReturnedTrue
                                                            THEN proc.success + 1 ELSE proc.success ]
    /\ UNCHANGED << clock, config, backups, files, survey >>
    /\ UNCHANGED botVars

\* The end of reconstructSingleRepoBranches: git remote remove backup,
\* git checkout mainBranch, and the line `reconstructed n/m branches`
ReconstructRepoEnd ==
    /\ proc.mode = "reconstruct"
    /\ proc.phase = "branches"
    /\ proc.queue = << >>
    /\ LET r == proc.i
           metadata == files[proc.file]
           rc == RepoAt(metadata.repoPath)
           w1 == RemoveBackupRemote(wc[rc])
       IN  \E checkoutOk \in BOOLEAN :
              /\ wc' = [ wc EXCEPT ![rc] = IF checkoutOk /\ metadata.mainBranch \in DOMAIN w1.refs
                                           THEN CheckoutBranch(w1, metadata.mainBranch) ELSE w1 ]
              /\ done' = [ done EXCEPT ![r].reported = << proc.success, done[r].total >> ]
              /\ ops' = Append(ops, Op("remote-remove", metadata.repoPath, NoFile, NoFile, NoCommit))
    /\ proc' = [ proc EXCEPT !.i = proc.i + 1, !.phase = "repo" ]
    /\ UNCHANGED << clock, config, origin, backups, files, survey >>
    /\ UNCHANGED botVars

\* the loop over the repositories is over: main() returns and the process ends
Exit ==
    /\ proc.mode \in { "clean", "reconstruct" }
    /\ proc.phase = "repo"
    /\ proc.i > Len(config)
    /\ proc' = [ proc EXCEPT !.mode = "idle", !.phase = "none" ]
    /\ UNCHANGED << clock, config, wc, origin, backups, files, survey, ops, done >>
    /\ UNCHANGED botVars

Next ==
    \/ Tick
    \/ StartClean
    \/ CleanRepoStep
    \/ StartReconstruct
    \/ ReconstructRepoBegin
    \/ ReconstructBranchStep
    \/ ReconstructRepoEnd
    \/ Exit

Spec == Init /\ [][Next]_vars

\* getBranchesToReconstruct(repo.path, mainBranch, daysThreshold) applied to a
\* working copy, as cleanRepo calls it: the listing succeeds or not, and the
\* last-commit query fails for some of the branches other than the trunk
Classify ==
    /\ proc.mode = "idle"
    /\ LET r == 1
           mainBranch == config[r].main_branch
       IN  \E listOk \in BOOLEAN : \E failing \in SUBSET (branchList(wc[r]) \ { mainBranch }) :
              /\ ~listOk => failing = {}
              /\ survey' = [ survey EXCEPT ![r] =
                    [ NoSurvey EXCEPT
                        !.valid = TRUE, !.refs = wc[r].refs, !.now = clock, !.main = mainBranch,
                        !.listOk = listOk, !.failed = failing,
                        !.out = getBranchesToReconstruct(wc[r], mainBranch, clock, BranchAgeDays,
                                                         listOk, failing) ] ]
    /\ UNCHANGED << clock, config, wc, origin, backups, files, proc, ops, done >>
    /\ UNCHANGED botVars

NextClassify ==
    \/ Tick
    \/ Classify

SpecClassify == InitClassify /\ [][NextClassify]_vars

SpecBatch == InitBatch /\ [][Next]_vars

----------------------------------------------------------------------------
(* removeRepoSecrets/secrets-removal.js: the utility with three modes      *)

\* const validModes = ['analysis', 'update', 'update-and-push']
validModes == { "analysis", "update", "update-and-push" }

\* what the command line may give as args[0]: nothing, a mode, or another word
UtilityArgs == { NoArg, "analysis", "update", "update-and-push", "clean" }

\* parseMode(): const mode = args[0] || 'analysis'; process.exit(1) when the
\* mode is not a valid one
parseMode(arg) ==
    LET mode == IF arg = NoArg THEN "analysis" ELSE arg
    IN  IF mode \in validModes THEN [ mode |-> mode, code |-> 0 ] ELSE [ mode |-> "none", code |-> 1 ]

\* main() of the utility up to its loop: parseMode, the check that
\* git filter-repo is installed, the configuration
UtilityStart ==
    /\ proc.mode = "idle"
    /\ proc.runs < MaxRuns
    /\ \E arg \in UtilityArgs, installed \in BOOLEAN :
          LET parsed == parseMode(arg)
          IN  /\ (parsed.code # 0) => installed
              /\ proc' = IF parsed.code = 0 /\ installed
                          THEN [ Idle EXCEPT !.mode = "utility", !.task = parsed.mode, !.arg = arg,
                                             !.i = 1, !.phase = "repo", !.runs = proc.runs + 1 ]
                          ELSE [ Idle EXCEPT !.arg = arg, !.runs = proc.runs + 1, !.code = 1 ]
    /\ ops' = << >>
    /\ done' = [ r \in 1..Len(config) |-> NoCalls ]
    /\ UNCHANGED << clock, config, wc, origin, backups, files, survey >>
    /\ UNCHANGED botVars

\* the modes in which cleanRepo calls createRepoBackup
MakesBackup(mode) == mode \in { "update", "update-and-push" }

\* the modes in which cleanRepo calls pushToRemote after the rewrite
PushesMirror(mode) == mode = "update-and-push"

\* the answers the operator may type at the prompt of confirmAction
YES == << "Y", "E", "S" >>

Answers == { YES, << "y", "e", "s" >>, << >> }

\* A variant of confirmAction that takes the answer in any case.
confirmActionAnyCase(answer) == answer \in { YES, << "y", "e", "s" >> }

\* confirmAction(): resolve(answer === 'YES')
confirmAction(answer) == answer = YES

\* path.join(repoPath, 'secrets-to-remove.txt'): the copy of the secrets file
\* that the tool reads inside a repository
SecretsToRemove == "secrets-to-remove.txt"

TempAnalysis == << "t", "e", "m", "p", "-", "a", "n", "a", "l", "y", "s", "i", "s", "-" >>

\* path.join(process.cwd(), `temp-analysis-${timestamp}`)
tempRepoPathOf(timestamp) == TempAnalysis \o timestamp

\* the prompt of confirmAction and what was typed
Asked(repo, branch, answer) ==
    [ op |-> "asked", repo |-> repo, branch |-> branch, for |-> NoFile, commit |-> NoCommit, answer |-> answer ]

\* What the outside world decides during one cleanRepo of the utility:
\* whether the copy succeeds (cpOk), what the operator types (answer), whether
\* the rewrite tool succeeds (filterOk) and what it does (ch), whether the push
\* succeeds (pushOk) and, in analysis mode, whether the analysis directory can
\* be made (mkdirOk) and the temporary copy removed (rmOk).  A decision about a
\* step the call does not reach is not enumerated.
UtilityEnvs(mode, trunk) ==
    LET all == [ cpOk : BOOLEAN, answer : Answers, filterOk : BOOLEAN, pushOk : BOOLEAN,
                 ch : RewriteChoices(trunk), mkdirOk : BOOLEAN, rmOk : BOOLEAN ]
        first == CHOOSE ch \in RewriteChoices(trunk) : ch.prune = 0
    IN  { e \in all :
            /\ ~MakesBackup(mode) => (e.cpOk /\ e.answer = YES)
            /\ MakesBackup(mode) => (e.mkdirOk /\ e.rmOk)
            /\ ~e.mkdirOk => (e.filterOk /\ e.rmOk)
            /\ ~confirmAction(e.answer) => e.filterOk
            /\ ~(MakesBackup(mode) /\ confirmAction(e.answer) /\ e.filterOk) => e.ch = first
            /\ ~(PushesMirror(mode) /\ confirmAction(e.answer) /\ e.filterOk) => e.pushOk }

\* git push --force --mirror origin: every ref of the working copy
PushMirror(w) == [ n \in { b \in DOMAIN w.refs : ~StartsWith(b, OriginSlash) } |-> w.refs[n] ]

\* analyseRepo(repoPath, secretsFile, config): the secrets file is copied into
\* the repository and the analysis directory made before the try; inside it
\* the repository is copied to tempRepoPath, the tool run on the copy and the
\* copy removed; the catch removes the copy again and rethrows; the finally
\* unlinks the secrets file of the repository.  The result is the working
\* copy, the directories, the steps and whether the call threw.
analyseRepo(w, dirs, name, mainBranch, timestamp, env) ==
    LET tempRepoPath == tempRepoPathOf(timestamp)
        first == CHOOSE ch \in RewriteChoices(w.refs[mainBranch]) : ch.prune = 0
        withSecrets == [ w EXCEPT !.tree = w.tree \cup { SecretsToRemove } ]
        temp == IF env.filterOk THEN Rewrite(withSecrets, mainBranch, first) ELSE withSecrets
        step(o) == Op(o, name, mainBranch, tempRepoPath, NoCommit)
    IN  IF ~env.mkdirOk
        THEN [ w |-> withSecrets, dirs |-> dirs, threw |-> TRUE,
               ops |-> << Op("analysis-failed", name, mainBranch, NoFile, NoCommit) >> ]
        ELSE [ w |-> [ withSecrets EXCEPT !.tree = withSecrets.tree \ { SecretsToRemove } ],
               dirs |-> IF env.rmOk THEN Drop(dirs, tempRepoPath) ELSE Put(dirs, tempRepoPath, temp),
               threw |-> ~(env.filterOk /\ env.rmOk),
               ops |-> << step("temp-copy"),
                          step(IF env.filterOk THEN "temp-rewrite" ELSE "temp-rewrite-failed"),
                          step(IF env.rmOk THEN "temp-removed" ELSE "temp-remove-failed") >> ]

\* One iteration of the loop of the utility's main(): cleanRepo(repo, config,
\* mode).  In analysis mode the rewrite is made on a temporary copy that is
\* deleted afterwards; in the other modes the working copy is backed up and,
\* once the user has typed YES, rewritten, and in update-and-push mode pushed.
UtilityCleanRepoStep ==
    /\ proc.mode = "utility"
    /\ proc.i <= Len(config)
    /\ LET r == proc.i
           name == config[r].name
           mainBranch == config[r].main_branch
           mode == proc.task
           runTimestamp == getTimestamp(clock)
           backupPath == backupPathOf(name, runTimestamp)
       IN  \E env \in UtilityEnvs(mode, wc[r].refs[mainBranch]) :
              LET backedUp == MakesBackup(mode)
                  copied == backedUp /\ env.cpOk
                  ranTool == backedUp /\ confirmAction(env.answer)
                  rewrote == ranTool /\ env.filterOk
                  pushing == rewrote /\ PushesMirror(mode)
                  pushed == pushing /\ env.pushOk
                  analysis == analyseRepo(wc[r], backups, name, mainBranch, runTimestamp, env)
                  w1 == IF rewrote THEN Rewrite(wc[r], mainBranch, env.ch) ELSE wc[r]
                  failed == IF backedUp THEN ~rewrote ELSE analysis.threw
              IN  /\ backups' = IF ~backedUp THEN analysis.dirs
                                ELSE IF copied THEN Put(backups, backupPath, wc[r]) ELSE backups
                  /\ wc' = [ wc EXCEPT ![r] = IF backedUp THEN w1 ELSE analysis.w ]
                  /\ origin' = IF pushed THEN [ origin EXCEPT ![r] = PushMirror(w1) ] ELSE origin
                  /\ ops' = ops
                        \o (IF ~backedUp
                            THEN analysis.ops
                            ELSE << Op(IF env.cpOk THEN "backup" ELSE "backup-failed", name, mainBranch, NoFile, NoCommit),
                                    Asked(name, mainBranch, env.answer) >>)
                        \o (IF backedUp /\ ~confirmAction(env.answer)
                            THEN << Op("declined", name, mainBranch, NoFile, NoCommit) >> ELSE << >>)
                        \o (IF ranTool
                            THEN << Op(IF env.filterOk THEN "rewrite" ELSE "rewrite-failed", name, mainBranch, NoFile, NoCommit) >>
                            ELSE << >>)
                        \o (IF pushing
                            THEN << Op(IF pushed THEN "push-mirror" ELSE "push-mirror-failed", name, mainBranch, NoFile, w1.refs[mainBranch]) >>
                            ELSE << >>)
                        \o << Op(IF failed THEN "returned-false" ELSE "returned-undefined",
                                  name, mainBranch, NoFile, NoCommit) >>
    /\ proc' = [ proc EXCEPT !.i = proc.i + 1 ]
    /\ UNCHANGED << clock, config, files, survey, done >>
    /\ UNCHANGED botVars

\* the loop of the utility is over: main() returns and the process ends
UtilityExit ==
    /\ proc.mode = "utility"
    /\ proc.i > Len(config)
    /\ proc' = [ proc EXCEPT !.mode = "idle", !.phase = "none" ]
    /\ UNCHANGED << clock, config, wc, origin, backups, files, survey, ops, done >>
    /\ UNCHANGED botVars

NextUtility ==
    \/ Tick
    \/ UtilityStart
    \/ UtilityCleanRepoStep
    \/ UtilityExit

SpecUtility == InitBatch /\ [][NextUtility]_vars

----------------------------------------------------------------------------
(* prBot (src/unnamed/part_003): the state store, the approval list and    *)
(* the handlers of the pull-request events.  Each workflow run of the bot  *)
(* is one process; two runs may be under way at once.  One repository is   *)
(* watched, so state.repositories[repo].pullRequests is the map prs.  The  *)
(* handlers of the labeled, unlabeled and status events are left out.      *)

\* how many workflow runs start in all
MaxBotRuns == 2

\* async updatePR(repo, prNumber, updates, maxRetries = 3), and the same
\* default in removePR and updateMetadata
maxRetries == 3

\* what the GitHub API answers a run about its pull request: build is
\* getBuildStatus, approved is approvedCount >= requiredApprovals, changes is
\* changesRequestedCount > 0.  An answer the handler never reads is not
\* enumerated.
Events ==
    LET all == [ action : { "opened", "closed", "submitted" }, pr : PRs,
                 reviewState : { "", "approved", "changes_requested" },
                 ignore : BOOLEAN, build : BOOLEAN, approved : BOOLEAN, changes : BOOLEAN ]
        unread(e) == ~e.build /\ ~e.approved /\ ~e.changes
    IN  { e \in all :
            /\ (e.reviewState # "") <=> (e.action = "submitted")
            /\ e.action = "closed" => (~e.ignore /\ unread(e))
            /\ e.action = "opened" => (~e.approved /\ ~e.changes)
            /\ e.changes => ~e.approved
            /\ e.ignore => unread(e)
            /\ e.reviewState = "changes_requested" => unread(e)
            /\ (e.reviewState = "approved" /\ e.approved /\ ~e.changes) => ~e.build }

\* createPRStateUpdate(): the fields of the stored pull request that the bot
\* reads again
createPRStateUpdate(changesRequested, buildSuccess) ==
    [ changesRequested |-> changesRequested, buildSuccess |-> buildSuccess ]

\* the calls of the state manager
updatePR(pr, updates, after) ==
    [ kind |-> "updatePR", pr |-> pr, updates |-> updates, ts |-> NoTs, after |-> after, quiet |-> FALSE ]

removePR(pr, after) ==
    [ kind |-> "removePR", pr |-> pr, updates |-> EmptyMap, ts |-> NoTs, after |-> after, quiet |-> FALSE ]

updateMetadata(ts, after, quiet) ==
    [ kind |-> "updateMetadata", pr |-> 0, updates |-> EmptyMap, ts |-> ts, after |-> after, quiet |-> quiet ]

\* what a call of the state manager makes of the state it has read
applyOp(state, op) ==
    CASE op.kind = "updatePR" -> [ state EXCEPT !.prs = Put(state.prs, op.pr, op.updates) ]
      [] op.kind = "removePR" -> [ state EXCEPT !.prs = Drop(state.prs, op.pr) ]
      [] OTHER -> [ state EXCEPT !.ts = op.ts ]

\* removePR writes only when the pull request is in the state it has read
writesState(state, op) == op.kind = "removePR" => op.pr \in DOMAIN state.prs

\* the run begins a call of the state manager: the first turn of its loop
Call(run, op) == [ run EXCEPT !.op = op, !.attempt = 0, !.pc = "read" ]

\* the call of the state manager returns to the handler; what it held is dropped
Return(run) ==
    [ run EXCEPT !.pc = run.op.after, !.op = NoOp, !.attempt = 0, !.state = InitialState, !.sha = 0 ]

\* an error reaches run(): it is logged and the process exits with status 1
Raise(run, error) ==
    [ NoRun EXCEPT !.run = run.run, !.event = run.event, !.pc = "done", !.error = error, !.code = 1 ]

\* handlePRChangesRequested(event): labels is not among the names the
\* function takes from the event, so evaluating labels?.some(...) raises a
\* ReferenceError before the first request is made
handlePRChangesRequested(run) == Raise(run, "ReferenceError")

\* run(): the switch on event.action and the handler up to its first request
\* to the state store or to Slack
Dispatch(run) ==
    LET e == run.event
        prState == createPRStateUpdate(e.changes, e.build)
    IN  CASE e.action = "opened" ->
                IF e.ignore THEN [ run EXCEPT !.pc = "done" ]
                ELSE Call(run, updatePR(e.pr, prState, IF prState.buildSuccess THEN "repost" ELSE "done"))
          [] e.action = "closed" -> Call(run, removePR(e.pr, "repost"))
          [] OTHER ->
                IF e.reviewState = "changes_requested" THEN handlePRChangesRequested(run)
                ELSE IF e.ignore THEN [ run EXCEPT !.pc = "done" ]
                ELSE IF e.approved /\ ~e.changes THEN [ run EXCEPT !.pc = "post", !.posting = "approved" ]
                ELSE Call(run, updatePR(e.pr, prState, "repost"))

\* a call of the state manager has ended
Ended(run, outcome) ==
    [ run |-> run.run, kind |-> run.op.kind, pr |-> run.op.pr, outcome |-> outcome ]

\* a workflow run starts on an event
BotStart(b) ==
    /\ bots[b].pc = "idle"
    /\ botlog.runs < MaxBotRuns
    /\ \E e \in Events :
          bots' = [ bots EXCEPT ![b] = Dispatch([ NoRun EXCEPT !.run = botlog.runs + 1, !.event = e ]) ]
    /\ botlog' = [ botlog EXCEPT !.runs = @ + 1,
                                 !.concurrent = @ \/ \E o \in Runners \ { b } : bots[o].pc # "idle" ]
    /\ UNCHANGED << store, channel >>
    /\ UNCHANGED toolVars

\* readState() in a turn of the loop of updatePR, removePR or updateMetadata,
\* and the change made to the state read; removePR returns at once when the
\* pull request is not in it
StoreRead(b) ==
    /\ bots[b].pc = "read"
    /\ LET run == bots[b]
       IN  IF writesState(store.state, run.op)
           THEN /\ bots' = [ bots EXCEPT ![b] = [ run EXCEPT !.state = applyOp(store.state, run.op),
                                                              !.sha = store.sha, !.pc = "write" ] ]
                /\ UNCHANGED botlog
           ELSE /\ bots' = [ bots EXCEPT ![b] = Return(run) ]
                /\ botlog' = [ botlog EXCEPT !.calls = Append(@, Ended(run, "nothing")) ]
    /\ UNCHANGED << store, channel >>
    /\ UNCHANGED toolVars

ECONNRESET == << "E", "C", "O", "N", "N", "R", "E", "S", "E", "T" >>

\* How httpRequest settles for a PUT: it resolves with the parsed body of
\* any response, whatever the status, and rejects only when the request
\* itself fails, with the message of that error
Settlements ==
    { [ resolved |-> TRUE, message |-> << >> ] }
        \cup { [ resolved |-> FALSE, message |-> m ] : m \in { ECONNRESET, << "4", "0", "9" >> } }

\* writeState(state, sha): returns when the request resolved; the catch turns
\* a rejection whose message includes '409' into CONFLICT and any other into
\* 'Failed to write state'
writeState(settled) ==
    IF settled.resolved THEN "ok"
    ELSE IF IndexOf(settled.message, << "4", "0", "9" >>) > 0 THEN "CONFLICT" ELSE "Failed to write state"

\* catch of the loops: error.message === 'CONFLICT' && attempt < maxRetries,
\* evaluated inside for (attempt = 0; attempt < maxRetries; attempt++)
retries(attempt) == attempt < maxRetries

\* writeState(state, sha) in a turn of the loop, and what the loop does with
\* its outcome.  The server stores the state only when the sha sent is the
\* sha of the file; its refusal is a response like any other.
StoreWrite(b) ==
    /\ bots[b].pc = "write"
    /\ \E settled \in Settlements :
          LET run == bots[b]
              fresh == run.sha = store.sha
              result == writeState(settled)
              again == result = "CONFLICT" /\ retries(run.attempt)
              outcome == CASE result = "ok" -> IF fresh THEN "written" ELSE "refused"
                           [] again -> IF run.attempt + 1 < maxRetries THEN "retry" ELSE "exhausted"
                           [] OTHER -> "raised"
          IN  /\ store' = IF settled.resolved /\ fresh
                          THEN [ state |-> run.state, sha |-> store.sha + 1 ] ELSE store
              /\ bots' = [ bots EXCEPT ![b] =
                             CASE outcome = "retry" -> [ run EXCEPT !.attempt = @ + 1, !.pc = "read" ]
                               [] outcome = "raised" -> IF run.op.quiet THEN Return(run) ELSE Raise(run, "write")
                               [] OTHER -> Return(run) ]
              /\ botlog' = IF outcome = "retry" THEN botlog
                           ELSE [ botlog EXCEPT !.calls = Append(@, Ended(run, outcome)) ]
    /\ UNCHANGED channel
    /\ UNCHANGED toolVars

\* where repostApprovalList goes on after the deletion of the previous list
AfterDelete(run) == IF run.message THEN "post" ELSE "done"

\* repostApprovalList(): readState and the message built from the pull
\* requests with a green build
RepostRead(b) ==
    /\ bots[b].pc = "repost"
    /\ LET run == bots[b]
           message == \E p \in DOMAIN store.state.prs : store.state.prs[p].buildSuccess
           read == [ run EXCEPT !.message = message, !.posting = "list" ]
       IN  bots' = [ bots EXCEPT ![b] =
                        IF store.state.ts # NoTs THEN [ read EXCEPT !.state = store.state, !.pc = "delete" ]
                        ELSE [ read EXCEPT !.pc = AfterDelete(read) ] ]
    /\ UNCHANGED << store, channel, botlog >>
    /\ UNCHANGED toolVars

\* repostApprovalList(): slack.deleteMessage of the previous list inside the
\* try; when it throws, the catch ignores the error and updateMetadata is
\* skipped
SlackDelete(b) ==
    /\ bots[b].pc = "delete"
    /\ \E ok \in BOOLEAN :
          LET run == bots[b]
              found == { m \in channel.messages : m.ts = run.state.ts }
              deleted == ok /\ found # {}
          IN  /\ channel' = IF deleted THEN [ channel EXCEPT !.messages = @ \ found ] ELSE channel
              /\ bots' = [ bots EXCEPT ![b] =
                             IF deleted THEN Call(run, updateMetadata(NoTs, AfterDelete(run), TRUE))
                             ELSE [ run EXCEPT !.pc = AfterDelete(run), !.state = InitialState ] ]
    /\ UNCHANGED << store, botlog >>
    /\ UNCHANGED toolVars

\* slack.postMessage: the approval list in repostApprovalList, followed by
\* updateMetadata({ approvalListMessageTs: ts }); or the standalone message
\* of handlePRReview, followed by removePR
SlackPost(b) ==
    /\ bots[b].pc = "post"
    /\ \E ok \in BOOLEAN :
          LET run == bots[b]
              ts == channel.last + 1
          IN  IF ok
              THEN /\ channel' = [ last |-> ts, messages |-> channel.messages \cup { [ ts |-> ts, kind |-> run.posting ] } ]
                   /\ bots' = [ bots EXCEPT ![b] =
                                  IF run.posting = "approved" THEN Call(run, removePR(run.event.pr, "repost"))
                                  ELSE Call(run, updateMetadata(ts, "done", FALSE)) ]
              ELSE /\ UNCHANGED channel
                   /\ bots' = [ bots EXCEPT ![b] = Raise(run, "slack") ]
    /\ UNCHANGED << store, botlog >>
    /\ UNCHANGED toolVars

\* the workflow run ends
BotEnd(b) ==
    /\ bots[b].pc = "done"
    /\ bots' = [ bots EXCEPT ![b] = NoRun ]
    /\ botlog' = [ botlog EXCEPT !.failed = @ \/ bots[b].code # 0 ]
    /\ UNCHANGED << store, channel >>
    /\ UNCHANGED toolVars

NextBot ==
    \E b \in Runners :
        \/ BotStart(b)
        \/ StoreRead(b)
        \/ StoreWrite(b)
        \/ RepostRead(b)
        \/ SlackDelete(b)
        \/ SlackPost(b)
        \/ BotEnd(b)

InitBot == InitWith(<< Repo(RepoA, Main) >>, Put(EmptyMap, Main, Trunk0))

SpecBot == InitBot /\ [][NextBot]_vars

----------------------------------------------------------------------------
(* Claims: the branch classifier                                           *)

\* the age of a branch's last commit at a classification, in whole seconds,
\* and the threshold in the same unit
LastCommitAgeSec(tip, now) == NowSec(now) - CommitSec(Atom(tip))

ThresholdSec == BranchAgeDays * SecondsPerDay

\* the last commit is older than the threshold, to the millisecond
IsStale(tip, now) ==
    \/ LastCommitAgeSec(tip, now) > ThresholdSec
    \/ LastCommitAgeSec(tip, now) = ThresholdSec /\ NowFrac(now) > 0

\* the tip is an ancestor of the trunk tip, or the branch has no commit the
\* trunk lacks
IsMerged(tip, trunk) == IsPrefix(tip, trunk) \/ Ancestors(tip) \ Ancestors(trunk) = {}

\* C7: in every classification, a branch whose tip is already an ancestor of
\* the trunk tip, or that has no commit the trunk lacks, is absent from the
\* classifier's output.
C7_MergedBranchesExcluded ==
    \A r \in DOMAIN survey : \A b \in DOMAIN survey[r].refs :
        IsMerged(survey[r].refs[b], survey[r].refs[Main]) => b \notin DOMAIN survey[r].out

\* C7 happens: a classification listed a fresh branch other than the trunk that
\* is merged, and left it out
C7_Witness ==
    \E r \in DOMAIN survey : \E b \in DOMAIN survey[r].refs \ MAIN_BRANCHES :
        /\ survey[r].valid
        /\ IsMerged(survey[r].refs[b], survey[r].refs[Main])
        /\ ~IsStale(survey[r].refs[b], survey[r].now)
        /\ b \notin DOMAIN survey[r].out

\* C8: in every classification, a branch whose last commit is older than the
\* age threshold is absent from the classifier's output.
C8_StaleBranchesExcluded ==
    \A r \in DOMAIN survey : \A b \in DOMAIN survey[r].refs :
        IsStale(survey[r].refs[b], survey[r].now) => b \notin DOMAIN survey[r].out

----------------------------------------------------------------------------
(* Claims: the metadata store and what a reconstruction run touches        *)

\* the classification that wrote a metadata file: the branches it listed and
\* the ones it selected
Listing(file) ==
    LET r == CHOOSE q \in DOMAIN survey : file \in DOMAIN survey[q].seen
    IN  survey[r].seen[file]

\* the commands of a reconstruction that act on a branch
BranchOps == { "delete", "create", "pick", "abort", "push", "push-failed" }

\* C9: a branch the classifier excluded has no entry in the saved metadata, a
\* reconstruction run attempts only branches that have an entry in the
\* metadata it loaded, and none of its commands acts on a branch that the
\* classification behind that metadata listed and excluded.
C9_OnlySavedBranchesTouched ==
    /\ \A r \in DOMAIN survey : \A f \in DOMAIN survey[r].seen :
          DOMAIN files[f].branches = DOMAIN survey[r].seen[f].out
    /\ \A r \in DOMAIN done : done[r].file # NoFile =>
          /\ \A i \in DOMAIN done[r].calls :
                done[r].calls[i].branch \in DOMAIN files[done[r].file].branches
          /\ \A i \in DOMAIN ops :
                (ops[i].op \in BranchOps /\ ops[i].repo = files[done[r].file].repoPath)
                    => ops[i].branch \notin
                         (DOMAIN Listing(done[r].file).refs \ DOMAIN Listing(done[r].file).out)

\* C10: once metadata has been saved for a repository name,
\* getLatestMetadataForRepo for that name selects the file of the last save
\* for it, whose contents are the record of that save.
C10_LatestIsLastSave ==
    \A r \in DOMAIN survey : survey[r].latest # NoFile =>
        LET f == getLatestMetadataForRepo(config[r].name, files)
        IN  /\ f = survey[r].latest
            /\ files[f].repoName = config[r].name
            /\ files[f].branches = survey[r].seen[survey[r].latest].out

----------------------------------------------------------------------------
(* Claims: the reconstruction of one branch                                *)

\* the calls of reconstructBranchFromBackup made in the last reconstruction run
Calls == UNION { Range(done[r].calls) : r \in DOMAIN done }

\* the commits a call had to replay, oldest first
Enumerated(c) == ReplayOrder(c.trace.base, ShaCommit(c.sha))

\* the commits of the applications a call made, in the order made
Attempted(c) == [ i \in DOMAIN c.trace.attempts |-> c.trace.attempts[i].commit ]

\* the changes a call put on the branch it created: those of the commits
\* between the commit the branch was created at and its tip
Applied(c) ==
    { c.trace.tip[i] % Rewritten : i \in (Len(c.trace.anchor) + 1)..Len(c.trace.tip) }

\* the call is the one of the end-to-end scenario: the saved branch has tip E,
\* it left the trunk at B, and the one commit of the working copy that carries
\* B's subject, author email and author date is the rewritten B, which the
\* search gave
IsEndToEnd(c) ==
    /\ c.sha = ShaText(CommitE)
    /\ c.trace.base = CommitB
    /\ c.trace.found # NoCommit
    /\ c.trace.found # CommitB
    /\ c.trace.matches = { c.trace.found }

\* C1: in the end-to-end scenario the call does not fail: it creates the
\* branch at the rewritten B, applies D then E and, the push succeeding,
\* publishes the branch and returns true.
C1_EndToEnd ==
    \A c \in Calls : IsEndToEnd(c) =>
        /\ c.result # Threw
        /\ c.trace.created => /\ c.trace.anchor = c.trace.found
                              /\ c.trace.listed => Attempted(c) = << CommitD, CommitE >>
                              /\ c.trace.pushed => c.result = ReturnedTrue

\* C2: whenever exactly one commit of the rewritten working copy carries the
\* divergence commit's subject, author email and author date, and the search
\* gave it, the call does not fail and the branch is created at that commit.
C2_AnchorMapping ==
    \A c \in Calls :
        (c.trace.found # NoCommit /\ c.trace.matches = { c.trace.found }) =>
            /\ c.result # Threw
            /\ c.trace.created => c.trace.anchor = c.trace.found

C4_ReplayOrder ==
    \A c \in Calls : \A i, j \in DOMAIN c.trace.attempts :
        i < j => /\ Attempted(c)[i] # Attempted(c)[j]
                 /\ IsPrefix(Attempted(c)[i], Attempted(c)[j])

\* C4 happens: a call attempted D and then E
C4_Witness ==
    \E c \in Calls : Attempted(c) = << CommitD, CommitE >>

\* a call that had two commits to replay, one of which did not apply while
\* the other did
OneOfTwoConflicts(c) ==
    /\ c.trace.created
    /\ Len(Enumerated(c)) = 2
    /\ \E i \in DOMAIN c.trace.attempts : c.trace.attempts[i].op = "abort"
    /\ ~ \A i \in DOMAIN Enumerated(c) :
            i \in DOMAIN c.trace.attempts /\ c.trace.attempts[i].op = "abort"

\* what C5 holds of every such call but the report: both commits are
\* attempted, the branch carries the change of the one that applied and not
\* of the other, and the call returns true exactly when the push succeeded
ConflictIsSkipped(c) ==
    /\ Attempted(c) = Enumerated(c)
    /\ \A i \in DOMAIN c.trace.attempts :
          (c.trace.attempts[i].op = "pick")
              <=> (Atom(c.trace.attempts[i].commit) \in Applied(c))
    /\ (c.result = ReturnedTrue) <=> c.trace.pushed

Reconstructed ==
    { r \in DOMAIN done :
        /\ done[r].file # NoFile /\ done[r].total > 0
        /\ (proc.mode = "reconstruct" => proc.i > r) }

\* C6: when a repository's turn in a reconstruction run is over, every saved
\* branch has been attempted, whatever became of the others, and the count
\* reported is the number of attempts less the number of failures.
C6_BranchIsolation ==
    \A r \in Reconstructed :
        /\ Len(done[r].calls) = done[r].total
        /\ done[r].reported =
              << Cardinality({ i \in DOMAIN done[r].calls : done[r].calls[i].result = ReturnedTrue }),
                 Len(done[r].calls) >>

----------------------------------------------------------------------------
(* Claims: the destructive run                                             *)

\* the commands the step being taken adds to those of the current process
NewOps == { ops'[i] : i \in (Len(ops) + 1)..Len(ops') }

\* the commands of a destructive run that come after the save
AfterSaveOps ==
    { "backup", "backup-failed", "rewrite", "rewrite-failed", "push-trunk", "push-trunk-failed" }

\* C11: no save changes the contents of a record written before it, and every
\* save adds a record.
C11_RecordsImmutable ==
    [][ /\ \A f \in DOMAIN files : f \in DOMAIN files' /\ files'[f] = files[f]
        /\ (\E o \in NewOps : o.op = "save") => DOMAIN files' # DOMAIN files ]_vars

\* the commands that end one cleanRepo: what it returned, or that it raised
ResultOps == { "returned-true", "returned-false", "raised" }

\* where the cleanRepo that made command k begins: the position of the last
\* command before k that ends a cleanRepo, 0 when there is none
SegStart(k) ==
    LET ends == { m \in 1..(k - 1) : ops[m].op \in ResultOps }
    IN  IF ends = {} THEN 0 ELSE CHOOSE m \in ends : \A n \in ends : n <= m

\* C12: in a destructive run the rewrite tool is run for a repository only
\* after that repository's metadata was saved and the backup step ran, a push
\* is a push of the trunk and comes right after the tool succeeded, and no
\* command of a reconstruction is made.
C12_DestructiveOrder ==
    \A k \in DOMAIN ops :
        /\ ops[k].op \in { "rewrite", "rewrite-failed" } =>
              \E i, j \in (SegStart(k) + 1)..(k - 1) :
                  /\ i < j
                  /\ ops[i].op = "save" /\ ops[i].repo = ops[k].repo
                  /\ ops[j].op \in { "backup", "backup-failed" } /\ ops[j].repo = ops[k].repo
        /\ ops[k].op \in { "push-trunk", "push-trunk-failed" } =>
              /\ k - 1 > SegStart(k)
              /\ ops[k - 1].op = "rewrite" /\ ops[k - 1].repo = ops[k].repo
              /\ ops[k].branch = Main
        /\ ops[k].op \in AfterSaveOps \cup ResultOps \cup { "save" } =>
              \A m \in DOMAIN ops : ops[m].op \notin BranchOps \cup { "remote-add", "remote-remove" }

\* C12 happens: a repository was saved, backed up, rewritten and its trunk
\* pushed, in that order
C12_Witness ==
    \E k \in DOMAIN ops :
        /\ k >= 4
        /\ ops[k].op = "push-trunk" /\ ops[k - 1].op = "rewrite"
        /\ ops[k - 2].op = "backup" /\ ops[k - 3].op = "save"
        /\ origin[RepoAt(ops[k].repo)][Main] = ops[k].commit
        /\ ops[k].commit # Trunk0

\* C13: a cleanRepo in which the save of the metadata raises makes no backup,
\* does not run the rewrite tool and pushes nothing: it changes neither the
\* backups, the working copies, the remotes nor the metadata directory, and
\* the loop of main goes on with the next repository.
C13_PersistenceFailure ==
    [][ (\E o \in NewOps : o.op = "raised") =>
            /\ \A o \in NewOps : o.op = "raised"
            /\ UNCHANGED << backups, wc, origin, files >>
            /\ proc'.mode = "clean" /\ proc'.i = proc.i + 1 ]_vars

\* C13 happens: the save raised for one repository and a later repository of
\* the same run was saved
C13_Witness ==
    \E k, m \in DOMAIN ops :
        /\ k < m
        /\ ops[k].op = "raised"
        /\ ops[m].op = "save" /\ ops[m].repo # ops[k].repo

\* C14: a cleanRepo in which the rewrite tool fails does not push the trunk
\* and returns false: the remotes stay as they are, and the loop of main goes
\* on with the next repository.
C14_RewriteFailure ==
    [][ (\E o \in NewOps : o.op = "rewrite-failed") =>
            /\ \A o \in NewOps : o.op \notin { "push-trunk", "push-trunk-failed", "returned-true", "raised" }
            /\ \E o \in NewOps : o.op = "returned-false"
            /\ UNCHANGED origin
            /\ proc'.mode = "clean" /\ proc'.i = proc.i + 1 ]_vars

\* C14 happens: the rewrite tool failed for one repository and a later
\* repository of the same run was rewritten and pushed
C14_Witness ==
    \E k, m \in DOMAIN ops :
        /\ k < m
        /\ ops[k].op = "rewrite-failed"
        /\ ops[m].op = "push-trunk" /\ ops[m].repo # ops[k].repo

\* C15: a cleanRepo of a dry run classifies and saves the metadata and does
\* nothing else: it makes no backup, does not run the rewrite tool, pushes
\* nothing, and leaves the backups, the working copies and the remotes as they
\* are.
C15_DryRun ==
    [][ (proc.mode = "clean" /\ proc.dry) =>
            /\ \A o \in NewOps : o.op \in { "save", "returned-true", "raised" }
            /\ UNCHANGED << backups, wc, origin >> ]_vars

\* C15 happens: a dry run saved the metadata of a repository with a branch to
\* reconstruct, and returned true
C15_Witness ==
    /\ proc.dry
    /\ Len(ops) >= 2
    /\ ops[1].op = "save" /\ ops[2].op = "returned-true"
    /\ \E f \in DOMAIN files : files[f].branches # EmptyMap
    /\ backups = EmptyMap

----------------------------------------------------------------------------
(* Claims: the reconstruction run                                          *)

\* C16: every metadata file a reconstruction run selects was written by a
\* run that made the backup the record names and rewrote the history.
C16_SelectedRecordIsBackedUp ==
    \A r \in DOMAIN done : done[r].file # NoFile =>
        /\ files[done[r].file].backupPath \in DOMAIN backups
        /\ Listing(done[r].file).copied
        /\ Listing(done[r].file).rewrote

\* C17: when a repository's turn in a reconstruction run is over, the backup
\* is no longer a remote of its working copy.
C17_BackupRemoteRemoved ==
    \A r \in Reconstructed :
        "backup" \notin wc[RepoAt(files[done[r].file].repoPath)].remotes

\* the positions, among the commands of the run, of the pushes and of the
\* applications made for a saved branch
PushesFor(branch) ==
    { k \in DOMAIN ops : ops[k].for = branch /\ ops[k].op \in { "push", "push-failed" } }

AttemptsFor(branch) ==
    { k \in DOMAIN ops : ops[k].for = branch /\ ops[k].op \in { "pick", "abort" } }

\* C18 as amended: once the branch has been created, the call returns true
\* exactly when the push succeeds, whatever the number of commits that did not
\* apply; it returns false without pushing only when the commits to replay
\* could not be listed.
C18_ResultIsPushOrListing ==
    \A c \in Calls : c.trace.created =>
        /\ (c.result = ReturnedTrue) <=> c.trace.pushed
        /\ c.result \in { ReturnedTrue, ReturnedFalse }
        /\ (c.result = ReturnedFalse /\ c.trace.listed) => PushesFor(c.branch) # {}

\* C18 happens: none of the commits of a branch applied, the push succeeded
\* and the call returned true
C18_Witness ==
    \E c \in Calls :
        /\ c.trace.created /\ c.trace.listed
        /\ Len(c.trace.attempts) = 2
        /\ \A i \in DOMAIN c.trace.attempts : c.trace.attempts[i].op = "abort"
        /\ c.trace.pushed /\ c.result = ReturnedTrue

\* C18: once the branch has been created, the call returns true exactly when
\* the push succeeds, and when it returns false a push was made and failed.
C18_ResultIsPushOnly ==
    \A c \in Calls : c.trace.created =>
        /\ (c.result = ReturnedTrue) <=> c.trace.pushed
        /\ c.result = ReturnedFalse =>
              \E k \in PushesFor(c.branch) : ops[k].op = "push-failed"

\* what C19 holds of a call that listed the commits: each is attempted once,
\* in one application each, and then one push is made, after all of them
ReplaysThenPushesOnce(c) ==
    /\ Attempted(c) = Enumerated(c)
    /\ Cardinality(AttemptsFor(c.branch)) = Len(Enumerated(c))
    /\ Cardinality(PushesFor(c.branch)) = 1
    /\ \A a \in AttemptsFor(c.branch) : \A q \in PushesFor(c.branch) : a < q

\* C19 as amended: a call that creates the branch and lists its commits makes
\* one application per listed commit and then exactly one push; a call that
\* creates the branch and cannot list the commits, or that does not create it,
\* makes no application and no push.
C19_ReplayThenOnePushIfListed ==
    \A c \in Calls :
        IF c.trace.created /\ c.trace.listed
        THEN ReplaysThenPushesOnce(c)
        ELSE AttemptsFor(c.branch) = {} /\ PushesFor(c.branch) = {}

\* C19 happens: a branch was created, its two commits were attempted and one
\* push was made
C19_Witness ==
    \E c \in Calls :
        /\ c.trace.created /\ c.trace.listed
        /\ Len(Enumerated(c)) = 2
        /\ Cardinality(PushesFor(c.branch)) = 1

\* C19: a call that creates the branch makes one application per enumerated
\* commit and then exactly one push.
C19_ReplayThenOnePush ==
    \A c \in Calls : c.trace.created => ReplaysThenPushesOnce(c)

\* C20: for a saved branch at most one push is made in a run, and when it
\* fails the call returns false and the remote is left as it was.
C20_PushOnceNoRetry ==
    \A c \in Calls :
        /\ Cardinality(PushesFor(c.branch)) <= 1
        /\ \A k \in PushesFor(c.branch) :
              ops[k].op = "push-failed" => c.result = ReturnedFalse /\ ~c.trace.pushed

\* C20 happens: the push of a rebuilt branch failed and the call returned false
C20_Witness ==
    \E c \in Calls :
        /\ c.trace.created /\ c.trace.listed /\ ~c.trace.pushed
        /\ \E k \in PushesFor(c.branch) : ops[k].op = "push-failed"
        /\ c.result = ReturnedFalse

----------------------------------------------------------------------------
(* Claims: failures and the commits replayed                               *)

\* the record a repository's turn in the reconstruction run loaded
Loaded(r) == files[done[r].file]

\* the backup the record names holds the trunk and the saved tip of the
\* call, and the two have no commit in common
HasNoMergeBase(r, c) ==
    LET m == Loaded(r)
    IN  /\ m.backupPath \in DOMAIN backups
        /\ m.mainBranch \in DOMAIN backups[m.backupPath].refs
        /\ ShaCommit(c.sha) \in Objects(backups[m.backupPath])
        /\ MergeBaseOf(backups[m.backupPath].refs[m.mainBranch], ShaCommit(c.sha)) = NoCommit

\* C21: a call for a saved branch that has no commit in common with the
\* backup's trunk returns false, creates no branch, applies and pushes
\* nothing, and the loop over the branches goes on: the branches after it stay
\* queued until attempted.
C21_NoCommonAncestor ==
    \A r \in DOMAIN done : \A i \in DOMAIN done[r].calls :
        LET c == done[r].calls[i]
        IN  HasNoMergeBase(r, c) =>
              /\ c.result = ReturnedFalse
              /\ ~c.trace.created
              /\ \A k \in DOMAIN ops :
                    ops[k].for = c.branch => ops[k].op \notin { "create", "pick", "abort", "push", "push-failed" }
              /\ (proc.mode = "reconstruct" /\ proc.phase = "branches" /\ proc.i = r)
                    => Len(done[r].calls) + Len(proc.queue) = done[r].total
              /\ (r \in Reconstructed /\ \A j \in DOMAIN done[r].calls : done[r].calls[j].result # Threw)
                    => Len(done[r].calls) = done[r].total

\* C21 happens: a branch without a common ancestor was refused and the branch
\* saved after it was then created
C21_Witness ==
    \E r \in DOMAIN done : \E i, j \in DOMAIN done[r].calls :
        /\ i < j
        /\ HasNoMergeBase(r, done[r].calls[i])
        /\ done[r].calls[i].result = ReturnedFalse
        /\ done[r].calls[j].trace.created

\* C22: the commits a call replays are the commits reachable from the saved
\* tip and not from the merge-base, each attempted once: the merge-base is not
\* among them and the tip is.
C22_ReplaySet ==
    \A c \in Calls : c.trace.listed =>
        LET tip == ShaCommit(c.sha)
        IN  /\ Range(Attempted(c)) = Ancestors(tip) \ Ancestors(c.trace.base)
            /\ Cardinality(Range(Attempted(c))) = Len(Attempted(c))
            /\ c.trace.base \notin Range(Attempted(c))
            /\ tip \in Range(Attempted(c))

\* C22 happens: for the branch with tip E that left the trunk at B, D and E
\* were replayed and B was not
C22_Witness ==
    \E c \in Calls :
        /\ c.trace.listed
        /\ ShaCommit(c.sha) = CommitE /\ c.trace.base = CommitB
        /\ Range(Attempted(c)) = { CommitD, CommitE }

----------------------------------------------------------------------------
(* Claims: the classifier on its own                                       *)

\* C23: the classifier's output holds neither the configured trunk nor its
\* remote-qualified form.
C23_TrunkNeverClassified ==
    \A r \in DOMAIN survey : survey[r].valid =>
        /\ survey[r].main \notin DOMAIN survey[r].out
        /\ (OriginSlash \o survey[r].main) \notin DOMAIN survey[r].out

\* the refs a classification listed, without the branches whose query failed
Answered(v) == [ n \in DOMAIN v.refs \ v.failed |-> v.refs[n] ]

----------------------------------------------------------------------------
(* Claims: re-runs, records and anchors                                    *)

\* C25: a local branch of the same name never makes a call fail: a call that
\* found the divergence point and did not raise creates the branch.
C25_ExistingBranchNeverFails ==
    \A c \in Calls : (c.trace.base # NoCommit /\ c.result # Threw) => c.trace.created

\* C28: the record a repository's turn in a reconstruction run loads was
\* saved for that repository.
C28_RecordOfSameRepository ==
    \A r \in DOMAIN done : done[r].file # NoFile => Loaded(r).repoName = config[r].name

\* C29: in a destructive run the rewrite tool is run for a repository only
\* after the copy of its working copy to the backup path succeeded.
C29_NoRewriteWithoutBackup ==
    \A k \in DOMAIN ops : ops[k].op \in { "rewrite", "rewrite-failed" } =>
        \E j \in (SegStart(k) + 1)..(k - 1) : ops[j].op = "backup" /\ ops[j].repo = ops[k].repo

\* C30: a branch a call creates points, before any commit is applied, at the
\* commit the search gave or, on fallback, at the tip of the rewritten trunk.
C30_CreatedAtChosenAnchor ==
    \A c \in Calls : c.trace.created =>
        c.trace.anchor = (IF c.trace.found # NoCommit THEN c.trace.found ELSE c.trace.trunk)

----------------------------------------------------------------------------
(* Claims: how a run ends, and the utility as documented                   *)

\* C26: a process ends with a non-zero status only from its start, before any
\* repository is processed; and when the loop of a clean run or of a
\* reconstruction run is over every configured repository has had its turn,
\* whatever became of the others.
C26_ExitBehaviour ==
    /\ proc.mode # "idle" => proc.code = 0
    /\ proc.code # 0 => (ops = << >> /\ \A r \in DOMAIN done : done[r] = NoCalls)
    /\ (proc.mode = "clean" /\ proc.i > Len(config)) =>
          \A r \in 1..Len(config) :
              \E k \in DOMAIN ops : ops[k].op \in ResultOps /\ ops[k].repo = config[r].name
    /\ (proc.mode = "reconstruct" /\ proc.i > Len(config)) =>
          \A r \in 1..Len(config) :
              \/ getLatestMetadataForRepo(config[r].name, files) = NoFile
              \/ done[r].file # NoFile

\* C26 happens: the first repository of a run failed (cleanRepo raised or
\* returned false, or a reconstruction raised), the second had its turn, and
\* the run ended with status 0
C26_Witness ==
    /\ proc.i > Len(config) /\ Len(config) = 2 /\ proc.code = 0
    /\ \/ /\ proc.mode = "clean"
          /\ \E k, m \in DOMAIN ops :
                /\ k < m
                /\ ops[k].op \in { "raised", "returned-false" } /\ ops[k].repo = config[1].name
                /\ ops[m].op = "returned-true" /\ ops[m].repo = config[2].name
       \/ /\ proc.mode = "reconstruct"
          /\ \E i \in DOMAIN done[1].calls : done[1].calls[i].result = Threw

\* C27: in a run of the utility started without a mode argument, a repository
\* whose turn is over was backed up, then (unless the user declined) the
\* rewrite tool was run on it, and when the tool succeeded its history was
\* force-pushed.
C27_NoArgumentCleansAndPushes ==
    \A k \in DOMAIN ops :
        (proc.arg = NoArg /\ ops[k].op \in { "returned-undefined", "returned-false" }) =>
            \E i, j \in 1..(k - 1) :
                /\ i < j
                /\ ops[i].op \in { "backup", "backup-failed" } /\ ops[i].repo = ops[k].repo
                /\ ops[j].op \in { "rewrite", "rewrite-failed", "declined" } /\ ops[j].repo = ops[k].repo
                /\ ops[j].op = "rewrite" =>
                      \E m \in (j + 1)..(k - 1) :
                          ops[m].op \in { "push-mirror", "push-mirror-failed" } /\ ops[m].repo = ops[k].repo

----------------------------------------------------------------------------
(* Claims: saved names, failed discovery and the result of a clean         *)

\* C31: two different saved names of one record are reconstructed into
\* different branch names: no two calls of a repository's turn work on the
\* same local and published branch.
C31_DistinctNamesDistinctBranches ==
    \A r \in DOMAIN done : \A i, j \in DOMAIN done[r].calls :
        done[r].calls[i].branch # done[r].calls[j].branch =>
            cleanBranchNameOf(done[r].calls[i].branch) # cleanBranchNameOf(done[r].calls[j].branch)

\* C32: a call that ends because the merge-base could not be found has
\* deleted no branch of the rewritten working copy.
C32_FailedDiscoveryChangesNothing ==
    \A c \in Calls : c.trace.base = NoCommit =>
        \A k \in DOMAIN ops : ops[k].for = c.branch => ops[k].op # "delete"

\* C33: in a run that is not a dry run, cleanRepo returns true only right
\* after a push of the rewritten trunk that succeeded.
C33_SuccessMeansPushed ==
    \A k \in DOMAIN ops : (ops[k].op = "returned-true" /\ ~proc.dry) =>
        /\ k - 1 > SegStart(k)
        /\ ops[k - 1].op = "push-trunk"

----------------------------------------------------------------------------
(* Claims: the modes of the utility                                        *)

\* the steps the move being taken adds, in order
StepOps == SubSeq(ops', Len(ops) + 1, Len(ops'))

\* C34: in the modes update and update-and-push, every run of the rewrite tool
\* and every mirror push of a cleanRepo is preceded, in that call, by the
\* backup step and by a prompt answered exactly YES; and when the answer is
\* anything else the working copies and the remotes are unchanged and the call
\* returns false.
C34_OnlyAfterBackupAndYes ==
    [][ (proc.mode = "utility" /\ MakesBackup(proc.task) /\ proc.i <= Len(config)) =>
          /\ \A k \in DOMAIN StepOps :
                StepOps[k].op \in { "rewrite", "rewrite-failed", "push-mirror", "push-mirror-failed" } =>
                    \E i, j \in 1..(k - 1) :
                        /\ i < j
                        /\ StepOps[i].op \in { "backup", "backup-failed" }
                        /\ StepOps[j].op = "asked"
                        /\ StepOps[j].answer = YES
          /\ \A j \in DOMAIN StepOps :
                (StepOps[j].op = "asked" /\ StepOps[j].answer # YES) =>
                    /\ UNCHANGED << wc, origin >>
                    /\ StepOps[Len(StepOps)].op = "returned-false"
      ]_vars

\* a cleanRepo was declined with the answer yes in lower case, and another
\* was confirmed, rewrote the history and pushed the mirror
C34_Witness ==
    /\ \E j \in DOMAIN ops :
          /\ ops[j].op = "asked"
          /\ ops[j].answer = << "y", "e", "s" >>
          /\ j + 2 \in DOMAIN ops
          /\ ops[j + 1].op = "declined"
          /\ ops[j + 2].op = "returned-false"
    /\ \E j, k \in DOMAIN ops :
          /\ j < k
          /\ ops[j].op = "asked"
          /\ ops[j].answer = YES
          /\ ops[k].op = "push-mirror"
          /\ ops[k].repo = ops[j].repo

\* C35: in analysis mode a cleanRepo leaves the refs of every working copy and
\* every remote as they were, makes no backup, and when it ends the secrets
\* file is no longer in the configured repository and, unless its removal
\* failed, the temporary copy is gone.
C35_AnalysisLeavesNothingBehind ==
    [][ (proc.mode = "utility" /\ proc.task = "analysis" /\ proc.i <= Len(config) /\ proc'.i # proc.i) =>
          /\ \A r \in DOMAIN wc : wc'[r].refs = wc[r].refs
          /\ UNCHANGED origin
          /\ DOMAIN backups' \subseteq DOMAIN backups \cup { tempRepoPathOf(getTimestamp(clock)) }
          /\ \A k \in DOMAIN StepOps : StepOps[k].op \notin { "backup", "rewrite", "push-mirror" }
          /\ SecretsToRemove \notin wc'[proc.i].tree
          /\ (\A k \in DOMAIN StepOps : StepOps[k].op # "temp-remove-failed") =>
                tempRepoPathOf(getTimestamp(clock)) \notin DOMAIN backups'
      ]_vars

----------------------------------------------------------------------------
(* Claims: prBot                                                           *)

\* the calls of the state manager that returned to their caller after a PUT
\* that the server answered
AnsweredOutcomes == { "written", "refused" }

\* a later call of kind k stored its change for pull request pr
StoredLater(i, k, pr) ==
    \E j \in (i + 1)..Len(botlog.calls) :
        /\ botlog.calls[j].kind = k
        /\ botlog.calls[j].pr = pr
        /\ botlog.calls[j].outcome = "written"

\* C36: whatever the interleaving of the runs, the state file holds the
\* effect of every updatePR and removePR that returned after its write was
\* answered: the pull request of an updatePR is in the state unless a later
\* removePR took it out, and the pull request of a removePR is not in the
\* state unless a later updatePR put it back.
C36_NoLostUpdate ==
    \A i \in DOMAIN botlog.calls :
        LET c == botlog.calls[i]
        IN  /\ (c.kind = "updatePR" /\ c.outcome \in AnsweredOutcomes) =>
                  (c.pr \in DOMAIN store.state.prs \/ StoredLater(i, "removePR", c.pr))
            /\ (c.kind = "removePR" /\ c.outcome \in AnsweredOutcomes) =>
                  (c.pr \notin DOMAIN store.state.prs \/ StoredLater(i, "updatePR", c.pr))

\* C37: every call of updatePR, removePR or updateMetadata that has ended
\* either stored its change (or, for removePR, found nothing to remove) or
\* raised an error; none returned normally without having written.
C37_PersistsOrRaises ==
    \A i \in DOMAIN botlog.calls : botlog.calls[i].outcome \in { "written", "nothing", "raised" }

\* the approval lists in the channel
ApprovalLists == { m \in channel.messages : m.kind = "list" }

\* every call of the state manager so far stored its change or had none to store
EveryCallStored == \A i \in DOMAIN botlog.calls : botlog.calls[i].outcome \in { "written", "nothing" }

\* C38: when no run is under way, no two runs ever overlapped, every run
\* ended with status 0 and every call of the state manager stored its change,
\* the channel holds at most one approval list, and
\* metadata.approvalListMessageTs is the ts of that list, or null when there
\* is none.
C38_OneApprovalList ==
    ((\A b \in Runners : bots[b].pc = "idle") /\ ~botlog.concurrent /\ ~botlog.failed /\ EveryCallStored) =>
        /\ Cardinality(ApprovalLists) <= 1
        /\ ApprovalLists = {} => store.state.ts = NoTs
        /\ \A m \in ApprovalLists : m.ts = store.state.ts

\* C39: a run for a submitted review with state changes_requested on a pull
\* request without the prbot-ignore label, in which no request to the state
\* store or to Slack failed, ends without an error after an updatePR for that
\* pull request.
C39_ChangesRequestedStored ==
    \A b \in Runners :
        LET e == bots[b].event
        IN  (/\ bots[b].pc = "done"
             /\ e.action = "submitted"
             /\ e.reviewState = "changes_requested"
             /\ ~e.ignore
             /\ bots[b].error \notin { "write", "slack" }) =>
                /\ bots[b].error = "none"
                /\ bots[b].code = 0
                /\ \E i \in DOMAIN botlog.calls :
                      /\ botlog.calls[i].run = bots[b].run
                      /\ botlog.calls[i].kind = "updatePR"
                      /\ botlog.calls[i].pr = e.pr

====
